---------------------------- MODULE Spec2Model ----------------------------
(***************************************************************************)
(* A model of the Proof-of-RAM engine of the REM Network Chrome miner:     *)
(* the chunk generator (PoRAMManager.generateChunk and its copies in the   *)
(* offscreen document and in the memory tabs), the challenge handler       *)
(* (PoRAMManager.handleChallenge) and the planners that spread a RAM       *)
(* commitment over execution units (handleCreateOffscreenContexts,         *)
(* handleCreateMemoryTabs and the initialize methods of PoRAMManager).     *)
(*                                                                         *)
(* Sizes are counted in quarters of a GB (the 256 MB chunk of the code):   *)
(* Q(15) = 60 is 15 GB, 58 is 14.5 GB.  Time is a counter of milliseconds. *)
(***************************************************************************)
EXTENDS Integers, Sequences, FiniteSets, TLC

(***************************************************************************)
(* State.                                                                  *)
(***************************************************************************)
VARIABLES
    \* PoRAMManager (the background service worker's main context)
    committedGB,          \* this.committedGB, in GB
    memory,               \* this.memory: the list of chunks (<<>> for null too:
                          \* every reader treats null and [] alike)
    initialized,          \* this.initialized
    offscreenContexts,    \* this.offscreenContexts: list of context / tab ids
    contextAllocations,   \* this.contextAllocations: id -> quarters of a GB
    keepAliveOn,          \* whether startKeepAlive's interval timer runs
    \* initializeInMainContext / initializeRemainingInMainContext
    mainPc,               \* position of the allocation in the main context
    mainI,                \* loop index i
    mainNumChunks,        \* numChunks
    mainTotal,            \* totalAllocatedGB, in quarters
    allocationTime,       \* allocationTime of the latest chunk, in seconds
    pauses,               \* delayMs of the pauses initializeInMainContext has made
    touches,              \* keep-alive ticks so far (bounded)
    \* record of generateChunk calls
    genFirst,             \* the first call made (NoCall before it)
    genLast,              \* the latest call made (NoCall before it)
    genIn,
    enc,                  \* an offset from its JSON text to the bytes generateChunk
                          \* hashes for it
    route,                \* the offsets of one challenge on their way to the units:
                          \* offsets.map's index and the unit index computed last
                \* the arguments of the call to make (generator alone)
    \* the execution units and the host
    doc,                  \* the offscreen document and its OffscreenPoRAMManager
    tabs,                 \* the memory tabs and their MemoryTabAllocator, by tab id
    activeTab,            \* the id of the window's active tab (0: no memory tab)
    now,                  \* performance.now(), in ms
    \* PoRAMManager.handleChallenge
    hcPc,                 \* "idle", "mainloop", "awaiting" (Promise.all),
                          \* "returned" or "caught" (returned by the catch block)
    challenge,            \* the challenge being handled
    startTime,            \* startTime
    req,                  \* per offset index: the generate request and its reply
    arrival,              \* the indices of the fulfilled requests, in completion order
    chunks,               \* the local array chunks
    response,             \* the response returned
    assembledAt,          \* the time at which the response was assembled
    \* planning: handleCreateOffscreenContexts / handleCreateMemoryTabs
    plan,                 \* the locals of the handler that is running
    \* background.js and WebSocketMiner
    miner,                \* whether background's `miner` holds a WebSocketMiner
    minerConfig,          \* minerConfig.max_ram_gb as last saved, in GB
    registerMsg,          \* capacity_gb of the register message sent (0: none sent)
    startResponse,        \* what the running startMiner returned ("pending"
                          \* while it awaits miner.start())
    answer,               \* the latest answer of saveConfig, startMiner or stopMiner
    zombieQ,              \* main-context chunks of the managers of stopped miners
    starts,               \* the number of miners constructed so far (bounded)
    ident,                \* the node_id in minerConfig, in chrome.storage.local, in
                          \* the miner's this.config and in its register message
    miners                \* the WebSocketMiner objects constructed so far, the last
                          \* being the one `miner` refers to when it is set: their
                          \* sockets, flags and timers

pmVars == <<committedGB, memory, initialized, offscreenContexts,
            contextAllocations, keepAliveOn>>

mainVars == <<mainPc, mainI, mainNumChunks, mainTotal, allocationTime, pauses>>

genVars == <<genFirst, genLast, genIn, enc, route>>

unitVars == <<doc, tabs, activeTab>>

hcVars == <<hcPc, challenge, startTime, req, arrival, chunks, response, assembledAt>>

planVars == <<plan>>

lifeVars == <<miner, minerConfig, registerMsg, startResponse, answer, zombieQ, starts,
             ident, miners>>

vars == <<pmVars, mainVars, touches, genVars, lifeVars, unitVars, now, hcVars, planVars>>

(***************************************************************************)
(* Generic helpers.                                                        *)
(***************************************************************************)
Min(a, b) == IF a < b THEN a ELSE b

Max(a, b) == IF a > b THEN a ELSE b

\* Math.ceil(a / b) for a >= 0, b > 0
CeilDiv(a, b) == (a + b - 1) \div b

Range(s) == {s[i] : i \in 1..Len(s)}

\* The unit index with Math.floor(n / k), at least 1, in place of
\* Math.ceil(n / k).
unitIndex_ByFloor(index, n, k) == index \div Max(1, n \div k)

\* handleChallenge's tabIndex / contextIndex of the offset at position index
\* (from 0) among n offsets and k units: Math.floor(index / Math.ceil(n / k)).
unitIndex(index, n, k) == index \div CeilDiv(n, k)

RECURSIVE SumSeq(_)
SumSeq(s) == IF s = <<>> THEN 0 ELSE Head(s) + SumSeq(Tail(s))

\* The value of a variable or field that holds nothing (null / undefined).
None == "none"

(***************************************************************************)
(* DeterministicChunkGenerator: PoRAMManager.generateChunk and helpers.    *)
(* A hex string and a base64 string are sequences of one-character         *)
(* strings; a byte array is a sequence over 0..255.                        *)
(***************************************************************************)
Byte == 0..255

HexDigits == <<"0", "1", "2", "3", "4", "5", "6", "7",
               "8", "9", "a", "b", "c", "d", "e", "f">>

\* parseInt(c, 16) of one hex digit
HexDigitValue(c) == (CHOOSE k \in 1..16 : HexDigits[k] = c) - 1

\* hexToBytes: bytes[i / 2] = parseInt(hex.substr(i, 2), 16), i = 0, 2, ...
hexToBytes(hex) ==
    [k \in 1..(Len(hex) \div 2) |->
        16 * HexDigitValue(hex[2 * k - 1]) + HexDigitValue(hex[2 * k])]

\* num & 0xff: the low byte of ToInt32(num); the model's numbers stay below
\* 2^31, where ToInt32 is the identity.
And0xff(num) == num % 256

\* The loop of numberToBytes: for (i = byteCount - 1; i >= 0; i--)
\*     { bytes[i] = num & 0xff; num = Math.floor(num / 256); }
\* `bytes` is the array so far, i the 0-based index about to be written.
RECURSIVE numberToBytesLoop(_, _, _)
numberToBytesLoop(bytes, num, i) ==
    IF i < 0 THEN bytes
    ELSE numberToBytesLoop([bytes EXCEPT ![i + 1] = And0xff(num)],
                           num \div 256, i - 1)

\* A plausible slip: the bytes written from the low index up (little-endian).
RECURSIVE numberToBytes_LittleEndianLoop(_, _, _, _)
numberToBytes_LittleEndianLoop(bytes, num, i, byteCount) ==
    IF i >= byteCount THEN bytes
    ELSE numberToBytes_LittleEndianLoop([bytes EXCEPT ![i + 1] = And0xff(num)],
                                        num \div 256, i + 1, byteCount)

numberToBytes_LittleEndian(num, byteCount) ==
    numberToBytes_LittleEndianLoop([k \in 1..byteCount |-> 0], num, 0, byteCount)

numberToBytes(num, byteCount) ==
    numberToBytesLoop([k \in 1..byteCount |-> 0], num, byteCount - 1)

\* The 32-byte digest.  SHA-256 itself (crypto.subtle.digest) is the host's
\* primitive; it is stood for by a 32-byte function of the whole input that
\* depends on every byte and on the order of the bytes.
DIGEST_LEN == 32

RECURSIVE DigestFold(_, _)
DigestFold(input, h) ==
    IF input = <<>> THEN h
    ELSE DigestFold(Tail(input), (h * 31 + Head(input) + 1) % 65521)

sha256(input) ==
    LET h == DigestFold(input, 7)
    IN  [j \in 1..DIGEST_LEN |-> ((h + 1) * (2 * j + 1) + j * j + (h \div 256)) % 256]

\* The while loop of generateChunk.  chunkData is the Uint8Array(chunkSize)
\* being filled, writePos / currentOffset the loop's cursors.
RECURSIVE generateChunkLoop(_, _, _, _, _)
generateChunkLoop(epochSeed, chunkData, chunkSize, currentOffset, writePos) ==
    IF ~(writePos < chunkSize) THEN chunkData
    ELSE LET offsetBytes == numberToBytes(currentOffset, 8)
             input == epochSeed \o offsetBytes
             hashBytes == sha256(input)
             remaining == chunkSize - writePos
             copyLen == Min(32, remaining)
         IN  generateChunkLoop(
                 epochSeed,
                 [k \in 1..chunkSize |->
                     IF k > writePos /\ k <= writePos + copyLen
                     THEN hashBytes[k - writePos] ELSE chunkData[k]],
                 chunkSize, currentOffset + copyLen, writePos + copyLen)

\* btoa's alphabet, and "=" for padding
B64Alphabet ==
    <<"A", "B", "C", "D", "E", "F", "G", "H", "I", "J", "K", "L", "M",
      "N", "O", "P", "Q", "R", "S", "T", "U", "V", "W", "X", "Y", "Z",
      "a", "b", "c", "d", "e", "f", "g", "h", "i", "j", "k", "l", "m",
      "n", "o", "p", "q", "r", "s", "t", "u", "v", "w", "x", "y", "z",
      "0", "1", "2", "3", "4", "5", "6", "7", "8", "9", "+", "/">>

\* arrayToBase64: btoa of the bytes, three bytes to four characters.
RECURSIVE arrayToBase64(_)
arrayToBase64(array) ==
    IF Len(array) = 0 THEN <<>>
    ELSE IF Len(array) = 1 THEN
        <<B64Alphabet[(array[1] \div 4) + 1],
          B64Alphabet[((array[1] % 4) * 16) + 1], "=", "=">>
    ELSE IF Len(array) = 2 THEN
        <<B64Alphabet[(array[1] \div 4) + 1],
          B64Alphabet[((array[1] % 4) * 16 + (array[2] \div 16)) + 1],
          B64Alphabet[((array[2] % 16) * 4) + 1], "=">>
    ELSE
        <<B64Alphabet[(array[1] \div 4) + 1],
          B64Alphabet[((array[1] % 4) * 16 + (array[2] \div 16)) + 1],
          B64Alphabet[((array[2] % 16) * 4 + (array[3] \div 64)) + 1],
          B64Alphabet[(array[3] % 64) + 1]>>
        \o arrayToBase64(SubSeq(array, 4, Len(array)))

\* generateChunk(epochSeedHex, offset, chunkSize): the base64 string returned.
\* A variant that mixes in what the allocated memory holds at the offset (what
\* a generator reading the committed RAM would do).
generateChunk_ReadsMemory(epochSeedHex, offset, chunkSize) ==
    LET data == generateChunkLoop(hexToBytes(epochSeedHex),
                                  [k \in 1..chunkSize |-> 0], chunkSize, offset, 0)
        cell == IF memory = <<>> THEN 0
                ELSE memory[(offset % Len(memory)) + 1][1]
    IN  arrayToBase64([k \in 1..chunkSize |-> (data[k] + cell) % 256])

generateChunk(epochSeedHex, offset, chunkSize) ==
    arrayToBase64(generateChunkLoop(hexToBytes(epochSeedHex),
                                    [k \in 1..chunkSize |-> 0], chunkSize, offset, 0))

(***************************************************************************)
(* The execution units, and the state every component starts in.           *)
(***************************************************************************)
\* The most memory tabs a plan of the model creates; tab ids are 1..MaxTabs
\* in creation order.
MaxTabs == 4

TabIds == 1..MaxTabs

EmptyMap == [x \in {} |-> 0]

\* new PoRAMManager(committedGB), apart from committedGB itself
PmFresh ==
    /\ memory = <<>>
    /\ initialized = FALSE
    /\ offscreenContexts = <<>>
    /\ contextAllocations = EmptyMap
    /\ keepAliveOn = FALSE

\* A plausible slip: the boundary value itself sent to the offscreen mode.
useOffscreenContexts_From15 == committedGB >= 15

\* this.useOffscreenContexts = committedGB > 15
useOffscreenContexts == committedGB > 15

MainIdle ==
    /\ mainPc = "idle"
    /\ mainI = 0
    /\ mainNumChunks = 0
    /\ mainTotal = 0
    /\ allocationTime = 0
    /\ pauses = <<>>

\* A context id: "poram_context_<n>" or "tab_<n>"
Ctx(kind, n) == [kind |-> kind, n |-> n]

NoCtx == Ctx("none", 0)

\* No initialize_memory request waiting at the offscreen document.
NoPending == [has |-> FALSE, contextId |-> NoCtx, allocatedQ |-> 0]

\* No OffscreenPoRAMManager.initialize call in progress.
NoRun == [active |-> FALSE, contextId |-> NoCtx, allocatedQ |-> 0,
          i |-> 0, numChunks |-> 0, total |-> 0]

\* No offscreen_initialized / offscreen_error message on its way.
NoSent == [type |-> "none", contextId |-> NoCtx]

\* No offscreen document.
NoDoc == [exists |-> FALSE, initialized |-> FALSE, memory |-> 0, contextId |-> NoCtx,
          pending |-> NoPending, run |-> NoRun, sent |-> NoSent]

\* The document as created: new OffscreenPoRAMManager().
FreshDoc == [NoDoc EXCEPT !.exists = TRUE]

\* No tab.
NoTab == [open |-> FALSE, initialized |-> FALSE, memory |-> 0,
          runs |-> <<>>, status |-> "none"]

\* The tab as created: new MemoryTabAllocator().
FreshTab == [NoTab EXCEPT !.open = TRUE]

UnitsNone ==
    /\ doc = NoDoc
    /\ tabs = [t \in TabIds |-> NoTab]
    /\ activeTab = 0

\* No planning handler has run.
NoPlan == [pc |-> "idle", totalQ |-> 0, remainingQ |-> 0, index |-> 0, numNeeded |-> 0,
           inDocument |-> 0, inContext |-> 0, chunkQ |-> 0, waitTab |-> 0,
           waitCtx |-> NoCtx, ids |-> <<>>, allocations |-> EmptyMap,
           failedUnit |-> 0, failure |-> "none"]

PlanIdle ==
    /\ plan = NoPlan

\* The answers of the message handlers: which request was answered, and
\* the fields success and message of the answer.
Reply(to, success, message) == [to |-> to, success |-> success, message |-> message]

NoAnswer == Reply("none", FALSE, "")

\* The node_id as the program holds it: node_id is minerConfig.node_id in the
\* worker's memory, stored the one in chrome.storage.local, minerNodeId the
\* miner's this.config.node_id, shared whether this.config is the object
\* minerConfig refers to, registerNodeId the node_id of the register message
\* sent (None: none sent), registered the miner's flag.
Ident(nodeId, registerNodeId) ==
    [node_id |-> nodeId, stored |-> nodeId, minerNodeId |-> nodeId, shared |-> TRUE,
     registerNodeId |-> registerNodeId, registered |-> FALSE]

(***************************************************************************)
(* WebSocketMiner: the sockets, flags and timers of one miner.             *)
\* The WebSockets one miner creates in one behaviour.
MaxSockets == 2

\* The registration retries one miner has pending at a time.
MaxRetries == 2

\* What sendHeartbeat saw when it last sent a heartbeat.
NoHeartbeat == [sent |-> FALSE, connected |-> FALSE, registered |-> FALSE,
                open |-> FALSE, confirmed |-> FALSE, ws |-> 0]

\* A WebSocketMiner after its constructor.  socks are the sockets it has
\* created ("connecting", "open", "closing": closed or failed with the close
\* event still to be dispatched, "closed"), ws the index of this.ws (0: null),
\* heartbeatInterval whether the field holds a handle and hbLive whether that
\* handle's timer runs, hbTimers the interval timers running, reconnectLive
\* whether the handle in this.reconnectTimeout is pending, reconnectTimers the
\* reconnect timers pending, retries the pending timeouts that call register()
\* unless registered, retriesAlways those that call it in any case, confirmed
\* whether a registration confirmation arrived since the latest disconnect
\* (an error or close event, or this.ws found or become not open),
\* stoppedAt the number of sockets created when stop() was first called (-1:
\* never).
NewMiner ==
    [stoppedAt |-> -1, socks |-> <<>>, ws |-> 0, connected |-> FALSE,
     registered |-> FALSE, heartbeatInterval |-> FALSE, hbLive |-> FALSE,
     hbTimers |-> 0, reconnectLive |-> FALSE, reconnectTimers |-> 0, retries |-> 0,
     retriesAlways |-> 0, confirmed |-> FALSE, heartbeat |-> NoHeartbeat]

\* this.ws && this.ws.readyState === WebSocket.OPEN
wsOpen(c) == c.ws # 0 /\ c.socks[c.ws] = "open"

\* connect(): nothing with an open this.ws, else a new WebSocket becomes
\* this.ws (the handlers of the socket it replaces stay installed).
connect(c) ==
    IF wsOpen(c)
    THEN c
    ELSE [c EXCEPT !.socks = Append(@, "connecting"), !.ws = Len(c.socks) + 1]

CanConnect(c) == wsOpen(c) \/ Len(c.socks) < MaxSockets

\* register(): the message goes through send(), which drops it unless this.ws
\* is open, and a 10 s timeout is set whose handle is not kept.
register(c) == [c EXCEPT !.retries = @ + 1]

CanRegister(c) == c.retries + c.retriesAlways < MaxRetries

\* clearInterval(this.heartbeatInterval)
clearHeartbeat(c) ==
    IF c.hbLive THEN [c EXCEPT !.hbLive = FALSE, !.hbTimers = @ - 1] ELSE c

\* sendHeartbeat() without its test of this.registered.
sendHeartbeat_Unregistered(c) ==
    IF ~c.connected
    THEN c
    ELSE IF ~wsOpen(c)
    THEN [c EXCEPT !.connected = FALSE, !.confirmed = FALSE]
    ELSE [c EXCEPT !.heartbeat = [sent |-> TRUE, connected |-> c.connected,
                                  registered |-> c.registered, open |-> wsOpen(c),
                                  confirmed |-> c.confirmed, ws |-> c.ws]]

\* sendHeartbeat(): returns unless connected and registered; with this.ws not
\* open it sets connected = false and returns; else it sends.
sendHeartbeat(c) ==
    IF ~c.connected \/ ~c.registered
    THEN c
    ELSE IF ~wsOpen(c)
    THEN [c EXCEPT !.connected = FALSE, !.confirmed = FALSE]
    ELSE [c EXCEPT !.heartbeat = [sent |-> TRUE, connected |-> c.connected,
                                  registered |-> c.registered, open |-> wsOpen(c),
                                  confirmed |-> c.confirmed, ws |-> c.ws]]

\* startHeartbeat(): an existing interval is cleared, a new one is set and
\* the first heartbeat is sent at once.
startHeartbeat(c) ==
    LET cleared == IF c.heartbeatInterval THEN clearHeartbeat(c) ELSE c
    IN  sendHeartbeat([cleared EXCEPT !.heartbeatInterval = TRUE, !.hbLive = TRUE,
                                      !.hbTimers = @ + 1])

\* handleWelcome and handleRegisterResponse with status 'ok', as far as the
\* flags and timers go: registered = true, and the heartbeat is started
\* unless this.heartbeatInterval is set.
confirmRegistration(c) ==
    LET r == [c EXCEPT !.registered = TRUE, !.confirmed = TRUE]
    IN  IF ~r.heartbeatInterval THEN startHeartbeat(r) ELSE r

\* ws.onopen of socket s
onopen(c, s) ==
    register([c EXCEPT !.socks[s] = "open", !.connected = TRUE, !.registered = FALSE])

\* ws.onerror of socket s: the close event follows.
onerror(c, s) ==
    [c EXCEPT !.socks[s] = "closing", !.connected = FALSE, !.confirmed = FALSE]

\* ws.onclose that forgets the heartbeat interval without clearing it.
onclose_KeepsInterval(c, s) ==
    LET d == [c EXCEPT !.socks[s] = "closed", !.connected = FALSE,
                       !.registered = FALSE, !.confirmed = FALSE,
                       !.heartbeatInterval = FALSE, !.hbLive = FALSE]
    IN  [d EXCEPT !.reconnectTimers = @ + 1, !.reconnectLive = TRUE]

\* ws.onclose of socket s: both flags false, the heartbeat interval cleared
\* and forgotten, and connect() scheduled in 5 s, whatever closed the socket.
onclose(c, s) ==
    LET d == [c EXCEPT !.socks[s] = "closed", !.connected = FALSE,
                       !.registered = FALSE, !.confirmed = FALSE]
        e == IF d.heartbeatInterval
             THEN [clearHeartbeat(d) EXCEPT !.heartbeatInterval = FALSE]
             ELSE d
    IN  [e EXCEPT !.reconnectTimers = @ + 1, !.reconnectLive = TRUE]

\* stop() up to its await: the heartbeat interval is cleared (the field keeps
\* the handle), the timer in this.reconnectTimeout is cleared and this.ws is
\* closed.
stop(c) ==
    LET d == IF c.heartbeatInterval THEN clearHeartbeat(c) ELSE c
        e == IF d.reconnectLive
             THEN [d EXCEPT !.reconnectLive = FALSE, !.reconnectTimers = @ - 1]
             ELSE d
    IN  [e EXCEPT !.socks = IF e.ws # 0 /\ e.socks[e.ws] \in {"connecting", "open"}
                            THEN [@ EXCEPT ![e.ws] = "closing"]
                            ELSE @,
                  !.stoppedAt = IF @ = -1 THEN Len(e.socks) ELSE @]

\* startMiner has built the WebSocketMiner from minerConfig and awaits
\* miner.start(): nothing is registered yet.
LifeStarting ==
    /\ miner = TRUE
    /\ minerConfig = committedGB
    /\ registerMsg = 0
    /\ startResponse = "pending"
    /\ answer = NoAnswer
    /\ zombieQ = 0
    /\ starts = 1
    /\ ident = Ident("n1", None)
    /\ miners = <<NewMiner>>

\* startMiner has returned { success: true } and the register message of the
\* running miner has been sent.
LifeRunning ==
    /\ miner = TRUE
    /\ minerConfig = committedGB
    /\ registerMsg = committedGB
    /\ startResponse = "success"
    /\ answer = Reply("startMiner", TRUE, "")
    /\ zombieQ = 0
    /\ starts = 1
    /\ ident = Ident("n1", "n1")
    /\ miners = <<onopen(connect(NewMiner), 1)>>

NoChallenge == [challenge_id |-> "", seedMissing |-> FALSE, epoch_seed |-> <<>>,
                offsets |-> <<>>, chunk_size |-> 0, deadline_ms |-> 0]

NoResponse == [sent |-> FALSE, challenge_id |-> "", chunks |-> <<>>, response_time_ms |-> 0]

HcIdle ==
    /\ hcPc = "idle"
    /\ challenge = NoChallenge
    /\ startTime = 0
    /\ req = <<>>
    /\ arrival = <<>>
    /\ chunks = <<>>
    /\ response = NoResponse
    /\ assembledAt = 0

(***************************************************************************)
(* Offsets as JavaScript holds them.  A natural number of any size is the  *)
(* sequence of its binary digits, lowest first, without leading zeros (0   *)
(* is <<>>); a Number holding a whole value is such a sequence with at     *)
(* most 53 significant digits.                                             *)
(***************************************************************************)
MANTISSA_BITS == 53

Bit(a, i) == IF i <= Len(a) THEN a[i] ELSE 0

Pow2(k) == [i \in 1..(k + 1) |-> IF i = k + 1 THEN 1 ELSE 0]

\* a + n for a small natural n
RECURSIVE AddSmall(_, _)
AddSmall(a, n) ==
    IF n = 0 THEN a
    ELSE LET d == Bit(a, 1) + n
         IN  <<d % 2>> \o AddSmall(IF a = <<>> THEN <<>> ELSE Tail(a), d \div 2)

\* The Number nearest to a (ties to the even mantissa): what JSON.parse
\* returns for the digits of a, and what an addition returns for the sum a.
ToNumber(a) ==
    IF Len(a) <= MANTISSA_BITS THEN a
    ELSE LET drop == Len(a) - MANTISSA_BITS
             high == SubSeq(a, drop + 1, Len(a))
             guard == a[drop]
             sticky == \E i \in 1..(drop - 1) : a[i] = 1
             up == guard = 1 /\ (sticky \/ high[1] = 1)
         IN  [i \in 1..drop |-> 0] \o (IF up THEN AddSmall(high, 1) ELSE high)

\* num & 0xff for a whole Number: ToInt32 keeps the value modulo 2^32 and the
\* mask its low eight digits.
And0xffOfNumber(num) ==
    Bit(num, 1) + 2 * Bit(num, 2) + 4 * Bit(num, 3) + 8 * Bit(num, 4)
    + 16 * Bit(num, 5) + 32 * Bit(num, 6) + 64 * Bit(num, 7) + 128 * Bit(num, 8)

\* Math.floor(num / 256): exact, the divisor being a power of two
FloorDiv256(num) == IF Len(num) <= 8 THEN <<>> ELSE SubSeq(num, 9, Len(num))

\* numberToBytes(num, byteCount) for a whole Number of any size: the loop
\* for (i = byteCount - 1; i >= 0; i--) { bytes[i] = num & 0xff; num = Math.floor(num / 256); }
RECURSIVE numberToBytesOfNumberLoop(_, _, _)
numberToBytesOfNumberLoop(bytes, num, i) ==
    IF i < 0 THEN bytes
    ELSE numberToBytesOfNumberLoop([bytes EXCEPT ![i + 1] = And0xffOfNumber(num)],
                                   FloorDiv256(num), i - 1)

numberToBytesOfNumber(num, byteCount) ==
    numberToBytesOfNumberLoop([k \in 1..byteCount |-> 0], num, byteCount - 1)

\* The offsets a challenge may carry: unsigned 64-bit values 2^k + d and
\* 2^64 - 1.
OffsetExponents == {0, 8, 31, 32, 52, 53, 54, 57, 58, 62, 63}

OffsetDeltas == {0, 1, 2, 3, 32, 255}

U64_BITS == 64

U64Offsets ==
    {AddSmall(Pow2(k), d) : k \in OffsetExponents, d \in OffsetDeltas}
    \cup {[i \in 1..U64_BITS |-> 1]}

EncSizes == {33, 65}

\* enc: value is the offset as the coordinator wrote it, num the Number
\* generateChunk holds as currentOffset, encoded the offsetBytes of the
\* iterations so far.
NoEnc == [pc |-> "none", value |-> <<>>, size |-> 0, num |-> <<>>, writePos |-> 0,
          encoded |-> <<>>]

\* route: n offsets and k units, index the index offsets.map comes to next,
\* unit the tabIndex / contextIndex computed for the index before it.
NoRoute == [n |-> 0, k |-> 0, index |-> 0, unit |-> 0]

(***************************************************************************)
(* Allocation in the main context: PoRAMManager.initializeInMainContext,   *)
(* cleanup and the keep-alive timer.                                       *)
(***************************************************************************)
\* GB to quarters of a GB
Q(gb) == 4 * gb

CHUNK_SIZE_Q == 1               \* CHUNK_SIZE_GB = 0.25

CHROME_MEMORY_LIMIT_Q == 60     \* CHROME_MEMORY_LIMIT_GB = 15

\* What of a chunk's bytes the model keeps: the bytes at ChunkCells sampled
\* pages (page 0, 4, 8, ...), as touchPagesAsync leaves them.
ChunkCells == 1

NewChunk == [k \in 1..ChunkCells |-> (4 * (k - 1)) % 256]

\* cleanup(), up to its first await, in a manager holding no offscreen
\* contexts: this.memory = null; this.initialized = false.
cleanupMain ==
    /\ memory' = <<>>
    /\ initialized' = FALSE

\* The timeout passed to allocateChunkWithTimeout, in seconds.
ALLOC_TIMEOUT_S == 30

\* The times one `new ArrayBuffer` may take, in seconds (the call is
\* synchronous and blocks while the system finds the memory).
AllocTimes == {1, 31}

\* allocateChunkWithTimeout: Promise.race of a promise whose executor runs
\* `new ArrayBuffer` synchronously, and of a timer.  The first promise is
\* settled when its constructor returns, before the timer is even created,
\* so the race settles as the allocation did, however long it took.
allocateChunkWithTimeout(allocates, took, timeoutS) ==
    IF allocates THEN "resolved" ELSE "rejected"

\* initializeInMainContext up to the loop: this.memory = [], i = 0.
MainInitStart ==
    /\ mainPc = "idle"
    /\ committedGB <= 15
    /\ mainPc' = "allocating"
    /\ memory' = <<>>
    /\ mainI' = 0
    /\ mainNumChunks' = CeilDiv(Q(committedGB), CHUNK_SIZE_Q)
    /\ mainTotal' = 0
    /\ pauses' = <<>>
    /\ UNCHANGED allocationTime
    /\ UNCHANGED <<committedGB, initialized, offscreenContexts,
                   contextAllocations, keepAliveOn, touches, genVars, lifeVars,
                   unitVars, now, hcVars, planVars>>

\* delayMs after chunk i (0-based) with totalAllocatedGB allocated: 50, 100
\* above 5 GB, 200 above 10 GB, doubled when i > 0 and i % 4 = 0.
delayMs(totalAllocatedQ, i) ==
    LET base == IF totalAllocatedQ > Q(10) THEN 200
                ELSE IF totalAllocatedQ > Q(5) THEN 100
                ELSE 50
    IN  IF i > 0 /\ i % 4 = 0 THEN base * 2 ELSE base

\* One iteration of the loop whose allocation succeeds: the limit check, the
\* allocation, the push, the page touching and the pause.
MainAllocChunk ==
    /\ mainPc = "allocating"
    /\ mainI < mainNumChunks
    /\ ~(mainTotal >= CHROME_MEMORY_LIMIT_Q)
    /\ LET remainingQ == Q(committedGB) - mainI * CHUNK_SIZE_Q
           actualChunkQ == Min(CHUNK_SIZE_Q, remainingQ)
       IN  /\ memory' = Append(memory, NewChunk)
           /\ mainTotal' = mainTotal + actualChunkQ
           /\ pauses' = IF mainI < mainNumChunks - 1
                        THEN Append(pauses, delayMs(mainTotal + actualChunkQ, mainI))
                        ELSE pauses
    /\ \E took \in AllocTimes :
          /\ allocateChunkWithTimeout(TRUE, took, ALLOC_TIMEOUT_S) = "resolved"
          /\ allocationTime' = took
    /\ mainI' = mainI + 1
    /\ UNCHANGED <<committedGB, initialized, offscreenContexts, contextAllocations,
                   keepAliveOn, mainPc, mainNumChunks, touches, genVars, lifeVars,
                   unitVars, now, hcVars, planVars>>

\* An iteration that fails: the limit is reached, or allocateChunkWithTimeout
\* rejects (new ArrayBuffer throws).  Both run cleanup() and throw.
MainAllocFail ==
    /\ mainPc = "allocating"
    /\ mainI < mainNumChunks
    /\ cleanupMain
    /\ mainPc' = "failed"
    /\ UNCHANGED <<committedGB, offscreenContexts, contextAllocations, keepAliveOn,
                   mainI, mainNumChunks, mainTotal, allocationTime, pauses,
                   touches, genVars, lifeVars,
                   unitVars, now, hcVars, planVars>>

\* After the loop: this.initialized = true; this.startKeepAlive().
MainInitDone ==
    /\ mainPc = "allocating"
    /\ ~(mainI < mainNumChunks)
    /\ initialized' = TRUE
    /\ keepAliveOn' = TRUE
    /\ mainPc' = "done"
    /\ UNCHANGED <<committedGB, memory, offscreenContexts, contextAllocations,
                   mainI, mainNumChunks, mainTotal, allocationTime, pauses,
                   touches, genVars, lifeVars,
                   unitVars, now, hcVars, planVars>>

\* One tick of startKeepAlive's interval: a random chunk, a random byte of
\* it, incremented modulo 256.
MaxTouches == 2

KeepAliveTick ==
    /\ keepAliveOn
    /\ touches < MaxTouches
    /\ ~(memory = <<>>)
    /\ \E chunkIndex \in 1..Len(memory), randomOffset \in 1..ChunkCells :
          memory' = [memory EXCEPT ![chunkIndex][randomOffset] =
                        (memory[chunkIndex][randomOffset] + 1) % 256]
    /\ touches' = touches + 1
    /\ UNCHANGED <<committedGB, initialized, offscreenContexts, contextAllocations,
                   keepAliveOn, mainVars, genVars, lifeVars, unitVars, now, hcVars,
                   planVars>>

(***************************************************************************)
(* Calls of generateChunk in the main context (the loop of handleChallenge *)
(* over the offsets, main-context branch).                                 *)
(***************************************************************************)
\* The inputs of the calls made while memory is allocated and touched.
CallSeeds == {<<"0", "0">>, <<"a", "b", "1", "0">>}

CallOffsets == {0, 255}

CallSizes == {1, 40}

\* A call: its arguments, what it returned, and the keep-alive tick count at
\* the time it was made.
NoCall == [made |-> FALSE, seed |-> <<>>, offset |-> 0, size |-> 0, out |-> <<>>, at |-> 0]

GenerateChunkCall ==
    /\ initialized
    /\ \E seed \in CallSeeds, offset \in CallOffsets, size \in CallSizes :
          LET call == [made |-> TRUE, seed |-> seed, offset |-> offset,
                       size |-> size, out |-> generateChunk(seed, offset, size),
                       at |-> touches]
          IN  /\ genLast' = call
              /\ genFirst' = IF genFirst.made THEN genFirst ELSE call
    /\ UNCHANGED <<pmVars, mainVars, touches, genIn, enc, route, lifeVars, unitVars, now, hcVars,
                   planVars>>

MainGBs == {1}

InitMain ==
    /\ committedGB \in MainGBs
    /\ PmFresh
    /\ MainIdle
    /\ touches = 0
    /\ genFirst = NoCall
    /\ enc = NoEnc
    /\ route = NoRoute
    /\ genLast = NoCall
    /\ genIn = NoCall
    /\ UnitsNone
    /\ now = 0
    /\ HcIdle
    /\ PlanIdle
    /\ LifeStarting

NextMain ==
    \/ MainInitStart
    \/ MainAllocChunk
    \/ MainAllocFail
    \/ MainInitDone
    \/ KeepAliveTick
    \/ GenerateChunkCall

SpecMain == InitMain /\ [][NextMain]_vars

(***************************************************************************)
(* The generator alone, as a function of its arguments: one call of        *)
(* generateChunk on arguments drawn from GenSeeds, GenOffsets, GenSizes.   *)
(***************************************************************************)
GenSeeds == {<<"0", "0">>, <<"0", "1">>, <<"a", "b", "1", "0">>, <<"f", "f", "0", "0", "7", "e">>}

GenOffsets == {0, 1, 31, 224, 255, 65535, 16777215}

GenSizes == {0, 1, 31, 32, 33, 40, 64, 65}

GenerateChunkRun ==
    /\ genIn.made
    /\ ~genLast.made
    /\ genLast' = [genIn EXCEPT !.out = generateChunk(genIn.seed, genIn.offset, genIn.size)]
    /\ UNCHANGED <<pmVars, mainVars, touches, genFirst, genIn, enc, route, lifeVars, unitVars, now,
                   hcVars, planVars>>

InitGen ==
    /\ committedGB = 1
    /\ PmFresh
    /\ MainIdle
    /\ touches = 0
    /\ genFirst = NoCall
    /\ enc = NoEnc
    /\ route = NoRoute
    /\ genLast = NoCall
    /\ \E seed \in GenSeeds, offset \in GenOffsets, size \in GenSizes :
          genIn = [made |-> TRUE, seed |-> seed, offset |-> offset,
                   size |-> size, out |-> <<>>, at |-> 0]
    /\ UnitsNone
    /\ now = 0
    /\ HcIdle
    /\ PlanIdle
    /\ LifeStarting

NextGen == GenerateChunkRun

SpecGen == InitGen /\ [][NextGen]_vars

\* An offset on its way through the miner: JSON.parse of the message, then
\* the iterations of generateChunk's loop as far as the cursor goes.
InitEncode ==
    /\ committedGB = 1
    /\ PmFresh
    /\ MainIdle
    /\ touches = 0
    /\ genFirst = NoCall
    /\ genLast = NoCall
    /\ genIn = NoCall
    /\ \E v \in U64Offsets, size \in EncSizes :
          enc = [NoEnc EXCEPT !.pc = "text", !.value = v, !.size = size]
    /\ route = NoRoute
    /\ UnitsNone
    /\ now = 0
    /\ HcIdle
    /\ PlanIdle
    /\ LifeStarting

\* ws.onmessage: JSON.parse(event.data) makes the offset a Number; it reaches
\* generateChunk as `offset` and currentOffset starts from it.
ParseOffset ==
    /\ enc.pc = "text"
    /\ enc' = [enc EXCEPT !.pc = "loop", !.num = ToNumber(enc.value)]
    /\ UNCHANGED <<pmVars, mainVars, touches, genFirst, genLast, genIn, route, lifeVars,
                   unitVars, now, hcVars, planVars>>

\* One iteration of the while loop: offsetBytes = numberToBytes(currentOffset, 8),
\* writePos += copyLen, currentOffset += copyLen.
EncodeCursor ==
    /\ enc.pc = "loop"
    /\ enc.writePos < enc.size
    /\ LET copyLen == Min(32, enc.size - enc.writePos)
       IN  enc' = [enc EXCEPT !.encoded = Append(@, numberToBytesOfNumber(enc.num, 8)),
                              !.writePos = @ + copyLen,
                              !.num = ToNumber(AddSmall(@, copyLen))]
    /\ UNCHANGED <<pmVars, mainVars, touches, genFirst, genLast, genIn, route, lifeVars,
                   unitVars, now, hcVars, planVars>>

EncodeDone ==
    /\ enc.pc = "loop"
    /\ ~(enc.writePos < enc.size)
    /\ enc' = [enc EXCEPT !.pc = "done"]
    /\ UNCHANGED <<pmVars, mainVars, touches, genFirst, genLast, genIn, route, lifeVars,
                   unitVars, now, hcVars, planVars>>

NextEncode ==
    \/ ParseOffset
    \/ EncodeCursor
    \/ EncodeDone

SpecEncode == InitEncode /\ [][NextEncode]_vars

\* The offsets of one challenge and the units of one miner.
MaxRouteOffsets == 12

MaxRouteUnits == 6

\* handleChallenge in the tab or offscreen branch, before offsets.map: a
\* challenge with n offsets and a miner with k units.
InitRoute ==
    /\ committedGB = 1
    /\ PmFresh
    /\ MainIdle
    /\ touches = 0
    /\ genFirst = NoCall
    /\ genLast = NoCall
    /\ genIn = NoCall
    /\ enc = NoEnc
    /\ \E n \in 1..MaxRouteOffsets, k \in 1..MaxRouteUnits :
          route = [NoRoute EXCEPT !.n = n, !.k = k]
    /\ UnitsNone
    /\ now = 0
    /\ HcIdle
    /\ PlanIdle
    /\ LifeStarting

\* offsets.map's callback for the next offset, up to the choice of the unit.
RouteOffset ==
    /\ route.index < route.n
    /\ route' = [route EXCEPT !.unit = unitIndex(route.index, route.n, route.k),
                              !.index = @ + 1]
    /\ UNCHANGED <<pmVars, mainVars, touches, genFirst, genLast, genIn, enc, lifeVars,
                   unitVars, now, hcVars, planVars>>

NextRoute == RouteOffset

SpecRoute == InitRoute /\ [][NextRoute]_vars

(***************************************************************************)
(* The copies of generateChunk in the execution units.                     *)
(***************************************************************************)
\* OffscreenPoRAMManager.generateChunk
RECURSIVE offscreenGenerateChunkLoop(_, _, _, _, _)
offscreenGenerateChunkLoop(epochSeed, chunkData, chunkSize, currentOffset, writePos) ==
    IF ~(writePos < chunkSize) THEN chunkData
    ELSE LET offsetBytes == numberToBytes(currentOffset, 8)
             hashBytes == sha256(epochSeed \o offsetBytes)
             copyLen == Min(32, chunkSize - writePos)
         IN  offscreenGenerateChunkLoop(
                 epochSeed,
                 [k \in 1..chunkSize |->
                     IF k > writePos /\ k <= writePos + copyLen
                     THEN hashBytes[k - writePos] ELSE chunkData[k]],
                 chunkSize, currentOffset + copyLen, writePos + copyLen)

offscreenGenerateChunk(epochSeedHex, offset, chunkSize) ==
    arrayToBase64(offscreenGenerateChunkLoop(hexToBytes(epochSeedHex),
                      [k \in 1..chunkSize |-> 0], chunkSize, offset, 0))

\* A plausible slip in one copy: the offset bytes concatenated before the
\* seed.
RECURSIVE tabGenerateChunkLoop_OffsetFirst(_, _, _, _, _)
tabGenerateChunkLoop_OffsetFirst(epochSeed, chunkData, chunkSize, currentOffset, writePos) ==
    IF ~(writePos < chunkSize) THEN chunkData
    ELSE LET offsetBytes == numberToBytes(currentOffset, 8)
             hashBytes == sha256(offsetBytes \o epochSeed)
             copyLen == Min(32, chunkSize - writePos)
         IN  tabGenerateChunkLoop_OffsetFirst(
                 epochSeed,
                 [k \in 1..chunkSize |->
                     IF k > writePos /\ k <= writePos + copyLen
                     THEN hashBytes[k - writePos] ELSE chunkData[k]],
                 chunkSize, currentOffset + copyLen, writePos + copyLen)

\* MemoryTabAllocator.generateChunk
RECURSIVE tabGenerateChunkLoop(_, _, _, _, _)
tabGenerateChunkLoop(epochSeed, chunkData, chunkSize, currentOffset, writePos) ==
    IF ~(writePos < chunkSize) THEN chunkData
    ELSE LET offsetBytes == numberToBytes(currentOffset, 8)
             hashBytes == sha256(epochSeed \o offsetBytes)
             copyLen == Min(32, chunkSize - writePos)
         IN  tabGenerateChunkLoop(
                 epochSeed,
                 [k \in 1..chunkSize |->
                     IF k > writePos /\ k <= writePos + copyLen
                     THEN hashBytes[k - writePos] ELSE chunkData[k]],
                 chunkSize, currentOffset + copyLen, writePos + copyLen)

tabGenerateChunk(epochSeedHex, offset, chunkSize) ==
    arrayToBase64(tabGenerateChunkLoop(hexToBytes(epochSeedHex),
                      [k \in 1..chunkSize |-> 0], chunkSize, offset, 0))

(***************************************************************************)
(* ChallengeProcessor: PoRAMManager.handleChallenge, the listeners of the  *)
(* units that answer generate_chunk / generate_chunk_tab, and the host.    *)
(***************************************************************************)
\* ctx.startsWith('tab_')
IsTabCtx(ctx) == ctx.kind = "tab"

\* The latest time the model's clock reaches.
MaxTime == 2

\* Time passes (between any two steps).
Tick ==
    /\ now < MaxTime
    /\ now' = now + 1
    /\ UNCHANGED <<pmVars, mainVars, touches, genVars, lifeVars, unitVars, hcVars, planVars>>

\* The challenges the coordinator may send.
MaxOffsets == 2

ChOffsets == {0, 32, 1073741825}

ChSeeds == {<<"0", "1">>}

ChSizes == {33}

ChDeadlines == {1}

Challenges ==
    {[challenge_id |-> "c1", seedMissing |-> m,
      epoch_seed |-> IF m THEN <<>> ELSE sd,
      offsets |-> offs, chunk_size |-> sz, deadline_ms |-> dl] :
        m \in BOOLEAN, sd \in ChSeeds, sz \in ChSizes, dl \in ChDeadlines,
        offs \in UNION {[1..n -> ChOffsets] : n \in 0..MaxOffsets}}

NoReply == [kind |-> "none", success |-> FALSE, chunk |-> <<>>]

\* chrome.runtime.lastError is set when the callback runs
LastError == [kind |-> "lastError", success |-> FALSE, chunk |-> <<>>]

Failure == [kind |-> "response", success |-> FALSE, chunk |-> <<>>]

Success(chunk) == [kind |-> "response", success |-> TRUE, chunk |-> chunk]

\* The requests handleChallenge sends for the offsets: offset i (0-based) goes
\* to unit floor(i / ceil(n / units)).
Requests(type, units, offsets) ==
    [i \in 1..Len(offsets) |->
            [type |-> type, unit |-> units[unitIndex(i - 1, Len(offsets), Len(units)) + 1],
             offset |-> offsets[i], status |-> "sent", reply |-> NoReply]]

\* handleChallenge from its entry to its first await: startTime is taken and,
\* in the tab and offscreen branches, offsets.map sends every request.  One
\* challenge is followed from its receipt to its response.
HandleChallengeOf(received) ==
    /\ hcPc = "idle"
    /\ initialized
    /\ \E ch \in received :
          /\ challenge' = ch
          /\ IF Len(offscreenContexts) > 0 /\ IsTabCtx(offscreenContexts[1])
             THEN /\ req' = Requests("generate_chunk_tab",
                                     [k \in 1..Len(offscreenContexts) |-> offscreenContexts[k].n],
                                     ch.offsets)
                  /\ hcPc' = "awaiting"
             ELSE IF useOffscreenContexts /\ Len(offscreenContexts) > 0
             THEN /\ req' = Requests("generate_chunk", offscreenContexts, ch.offsets)
                  /\ hcPc' = "awaiting"
             ELSE /\ req' = <<>>
                  /\ hcPc' = "mainloop"
    /\ startTime' = now
    /\ arrival' = <<>>
    /\ chunks' = <<>>
    /\ response' = NoResponse
    /\ assembledAt' = 0
    /\ UNCHANGED <<pmVars, mainVars, touches, genVars, lifeVars, unitVars, now, planVars>>

HandleChallengeStart == HandleChallengeOf(Challenges)

\* The offscreen document's listener for generate_chunk (or, with no document,
\* the host reporting that nothing received the message).
OffscreenHandleGenerate(i) ==
    /\ hcPc = "awaiting"
    /\ req[i].status = "sent"
    /\ req[i].type = "generate_chunk"
    /\ LET reply ==
              IF ~doc.exists THEN LastError
              ELSE IF ~doc.initialized THEN Failure
              ELSE IF challenge.seedMissing THEN Failure
              ELSE Success(offscreenGenerateChunk(challenge.epoch_seed, req[i].offset,
                                                  challenge.chunk_size))
       IN  req' = [req EXCEPT ![i].status = "responded", ![i].reply = reply]
    /\ UNCHANGED <<pmVars, mainVars, touches, genVars, lifeVars, unitVars, now, hcPc, challenge,
                   startTime, arrival, chunks, response, assembledAt, planVars>>

\* The memory tabs' listener for generate_chunk_tab.  Every open tab receives
\* the message and compares message.tabId with the window's active tab: when
\* they differ every tab returns without answering; when they agree the tabs
\* answer and the first answer is the reply.
TabHandleGenerate(i) ==
    /\ hcPc = "awaiting"
    /\ req[i].status = "sent"
    /\ req[i].type = "generate_chunk_tab"
    /\ IF \A t \in TabIds : ~tabs[t].open
       THEN req' = [req EXCEPT ![i].status = "responded", ![i].reply = LastError]
       ELSE IF req[i].unit # activeTab
       THEN req' = [req EXCEPT ![i].status = "ignored"]
       ELSE \E t \in TabIds :
               /\ tabs[t].open
               /\ LET reply ==
                         IF ~tabs[t].initialized THEN Failure
                         ELSE IF challenge.seedMissing THEN Failure
                         ELSE Success(tabGenerateChunk(challenge.epoch_seed, req[i].offset,
                                                       challenge.chunk_size))
                  IN  req' = [req EXCEPT ![i].status = "responded", ![i].reply = reply]
    /\ UNCHANGED <<pmVars, mainVars, touches, genVars, lifeVars, unitVars, now, hcPc, challenge,
                   startTime, arrival, chunks, response, assembledAt, planVars>>

\* The host may close the port of a request nobody answered, once the tabs'
\* sendResponse functions are garbage-collected: the callback then runs with
\* lastError set.  Nothing makes this happen.
PortCollected(i) ==
    /\ hcPc = "awaiting"
    /\ req[i].status = "ignored"
    /\ req' = [req EXCEPT ![i].status = "responded", ![i].reply = LastError]
    /\ UNCHANGED <<pmVars, mainVars, touches, genVars, lifeVars, unitVars, now, hcPc, challenge,
                   startTime, arrival, chunks, response, assembledAt, planVars>>

\* The callback of chrome.runtime.sendMessage and the rest of the per-offset
\* async function: it rejects on lastError or on !response.success and
\* returns response.chunk otherwise.
GenerateCallback(i) ==
    /\ hcPc = "awaiting"
    /\ req[i].status = "responded"
    /\ IF req[i].reply.kind = "lastError" \/ ~req[i].reply.success
       THEN /\ req' = [req EXCEPT ![i].status = "rejected"]
            /\ UNCHANGED arrival
       ELSE /\ req' = [req EXCEPT ![i].status = "fulfilled"]
            /\ arrival' = Append(arrival, i)
    /\ UNCHANGED <<pmVars, mainVars, touches, genVars, lifeVars, unitVars, now, hcPc, challenge,
                   startTime, chunks, response, assembledAt, planVars>>

\* What Promise.all resolves to: the values by position in the array of
\* promises.
AllResults_CompletionOrder(requests, order) ==
    [k \in 1..Len(order) |-> requests[order[k]].reply.chunk]

AllResults(requests, order) ==
    [i \in 1..Len(requests) |-> requests[i].reply.chunk]

\* return { challenge_id, chunks, response_time_ms: Math.floor(now - startTime) }
ResponseOf(cs) ==
    [sent |-> TRUE, challenge_id |-> challenge.challenge_id, chunks |-> cs,
     response_time_ms |-> now - startTime]

\* catch: return { challenge_id, chunks: [], response_time_ms: 0 }
CatchResponse ==
    [sent |-> TRUE, challenge_id |-> challenge.challenge_id, chunks |-> <<>>,
     response_time_ms |-> 0]

\* Promise.all resolved: chunks.push(...results), then the response.
HandleChallengeAssemble ==
    /\ hcPc = "awaiting"
    /\ \A i \in 1..Len(req) : req[i].status = "fulfilled"
    /\ chunks' = chunks \o AllResults(req, arrival)
    /\ response' = ResponseOf(chunks')
    /\ assembledAt' = now
    /\ hcPc' = "returned"
    /\ UNCHANGED <<pmVars, mainVars, touches, genVars, lifeVars, unitVars, now, challenge,
                   startTime, req, arrival, planVars>>

\* Promise.all rejected (some request rejected): the catch block.
HandleChallengeCatch ==
    /\ hcPc = "awaiting"
    /\ \E i \in 1..Len(req) : req[i].status = "rejected"
    /\ response' = CatchResponse
    /\ assembledAt' = now
    /\ hcPc' = "caught"
    /\ UNCHANGED <<pmVars, mainVars, touches, genVars, lifeVars, unitVars, now, challenge,
                   startTime, req, arrival, chunks, planVars>>

\* The main-context branch: one iteration of for (const offset of offsets).
\* generateChunk throws on a missing epoch_seed, which the catch block takes.
HandleChallengeMainStep ==
    /\ hcPc = "mainloop"
    /\ Len(chunks) < Len(challenge.offsets)
    /\ IF challenge.seedMissing
       THEN /\ response' = CatchResponse
            /\ assembledAt' = now
            /\ hcPc' = "caught"
            /\ UNCHANGED chunks
       ELSE /\ chunks' = Append(chunks,
                            generateChunk(challenge.epoch_seed,
                                          challenge.offsets[Len(chunks) + 1],
                                          challenge.chunk_size))
            /\ UNCHANGED <<response, assembledAt, hcPc>>
    /\ UNCHANGED <<pmVars, mainVars, touches, genVars, lifeVars, unitVars, now, challenge,
                   startTime, req, arrival, planVars>>

HandleChallengeMainDone ==
    /\ hcPc = "mainloop"
    /\ Len(chunks) = Len(challenge.offsets)
    /\ response' = ResponseOf(chunks)
    /\ assembledAt' = now
    /\ hcPc' = "returned"
    /\ UNCHANGED <<pmVars, mainVars, touches, genVars, lifeVars, unitVars, now, challenge,
                   startTime, req, arrival, chunks, planVars>>

\* The user activates another tab of the window.
SwitchActiveTab ==
    /\ \E t \in 0..MaxTabs :
          /\ t # activeTab
          /\ t # 0 => tabs[t].open
          /\ activeTab' = t
    /\ UNCHANGED <<pmVars, mainVars, touches, genVars, lifeVars, doc, tabs, now, hcVars, planVars>>

\* The user closes a memory tab.
TabClosed ==
    /\ \E t \in TabIds :
          /\ tabs[t].open
          /\ tabs' = [tabs EXCEPT ![t] = NoTab]
          /\ activeTab' = IF activeTab = t THEN 0 ELSE activeTab
    /\ UNCHANGED <<pmVars, mainVars, touches, genVars, lifeVars, doc, now, hcVars, planVars>>

\* chrome.offscreen.closeDocument(): close_offscreen_contexts closes the
\* document.
DocClosed ==
    /\ doc.exists
    /\ doc' = NoDoc
    /\ UNCHANGED <<pmVars, mainVars, touches, genVars, lifeVars, tabs, activeTab, now, hcVars, planVars>>

\* The states planning leaves behind, one per allocation mode.
InitChallenge ==
    /\ \/ /\ committedGB = 1
          /\ memory = [k \in 1..4 |-> NewChunk]
          /\ offscreenContexts = <<>>
          /\ contextAllocations = EmptyMap
          /\ keepAliveOn = TRUE
          /\ doc = NoDoc
          /\ tabs = [t \in TabIds |-> NoTab]
       \/ /\ committedGB = 16
          /\ memory = [k \in 1..6 |-> NewChunk]
          /\ offscreenContexts = <<Ctx("poram_context", 0), Ctx("poram_context", 1)>>
          /\ contextAllocations = (Ctx("poram_context", 0) :> 48) @@ (Ctx("poram_context", 1) :> 10)
          /\ keepAliveOn = FALSE
          /\ doc = [FreshDoc EXCEPT !.initialized = TRUE, !.memory = 10,
                                    !.contextId = Ctx("poram_context", 1)]
          /\ tabs = [t \in TabIds |-> NoTab]
       \/ /\ committedGB = 29
          /\ memory = <<>>
          /\ offscreenContexts = <<Ctx("tab", 1), Ctx("tab", 2)>>
          /\ contextAllocations = (Ctx("tab", 1) :> 58) @@ (Ctx("tab", 2) :> 58)
          /\ keepAliveOn = FALSE
          /\ doc = NoDoc
          /\ tabs = [t \in TabIds |-> IF t <= 2
                                      THEN [FreshTab EXCEPT !.initialized = TRUE, !.memory = 58,
                                                            !.status = "allocated"]
                                      ELSE NoTab]
    /\ initialized = TRUE
    /\ activeTab = 0
    /\ MainIdle
    /\ touches = 0
    /\ genFirst = NoCall
    /\ enc = NoEnc
    /\ route = NoRoute
    /\ genLast = NoCall
    /\ genIn = NoCall
    /\ now = 0
    /\ HcIdle
    /\ PlanIdle
    /\ LifeRunning

NextChallenge ==
    \/ HandleChallengeStart
    \/ \E i \in 1..Len(req) : OffscreenHandleGenerate(i)
    \/ \E i \in 1..Len(req) : TabHandleGenerate(i)
    \/ \E i \in 1..Len(req) : PortCollected(i)
    \/ \E i \in 1..Len(req) : GenerateCallback(i)
    \/ HandleChallengeAssemble
    \/ HandleChallengeCatch
    \/ HandleChallengeMainStep
    \/ HandleChallengeMainDone
    \/ SwitchActiveTab
    \/ TabClosed
    \/ DocClosed
    \/ Tick

SpecChallenge == InitChallenge /\ [][NextChallenge]_vars

\* Challenges for more offsets than there are units, and their handling
\* while the units stay as planning left them.
WideOffsets == 3

WideChallenges ==
    {[challenge_id |-> "c1", seedMissing |-> FALSE, epoch_seed |-> sd,
      offsets |-> offs, chunk_size |-> sz, deadline_ms |-> dl] :
        sd \in ChSeeds, sz \in ChSizes, dl \in ChDeadlines,
        offs \in [1..WideOffsets -> {0, 32}]}

HandleWideChallenge == HandleChallengeOf(WideChallenges)

NextFanout ==
    \/ HandleWideChallenge
    \/ \E i \in 1..Len(req) : OffscreenHandleGenerate(i)
    \/ \E i \in 1..Len(req) : TabHandleGenerate(i)
    \/ \E i \in 1..Len(req) : PortCollected(i)
    \/ \E i \in 1..Len(req) : GenerateCallback(i)
    \/ HandleChallengeAssemble
    \/ HandleChallengeCatch
    \/ HandleChallengeMainStep
    \/ HandleChallengeMainDone
    \/ SwitchActiveTab

SpecFanout == InitChallenge /\ [][NextFanout]_vars

(***************************************************************************)
(* Planning above 15 GB, offscreen mode: initializeWithOffscreenContexts,  *)
(* handleCreateOffscreenContexts, OffscreenPoRAMManager.initialize and     *)
(* initializeRemainingInMainContext.                                       *)
(***************************************************************************)
\* Object.values(allocations).reduce((sum, gb) => sum + gb, 0)
RECURSIVE SumValues(_)
SumValues(f) ==
    IF DOMAIN f = {} THEN 0
    ELSE LET k == CHOOSE x \in DOMAIN f : TRUE
         IN  f[k] + SumValues([x \in DOMAIN f \ {k} |-> f[x]])

\* allocations[id] = (allocations[id] || 0) + q
AddAllocation(allocations, id, q) ==
    IF id \in DOMAIN allocations
    THEN [allocations EXCEPT ![id] = @ + q]
    ELSE allocations @@ (id :> q)

\* The sequence s without its k-th element
RemoveAt(s, k) == [j \in 1..(Len(s) - 1) |-> IF j < k THEN s[j] ELSE s[j + 1]]

MAX_PER_CONTEXT_Q == 48         \* MAX_PER_CONTEXT_GB = 12

BG_CHUNK_SIZE_Q == 4            \* CHUNK_SIZE_GB = 1 (handleCreateOffscreenContexts)

LIMIT_WITH_BUFFER_Q == 58       \* CHROME_..._LIMIT_GB - 0.5

GB_PER_TAB_Q == 58              \* GB_PER_TAB = 14.5

\* The commitments above 15 GB the model plans for.
PlanGBs == {16, 24, 30, 44}

\* The plan failed: respond({ success: false }), on which
\* initializeWithOffscreenContexts / initializeWithMultipleTabs throws.
\* failedUnit and failure keep which unit (1, 2, ...) and which event ended it.
PlanFailed(unit, failure) ==
    [plan EXCEPT !.pc = "failed", !.failedUnit = unit, !.failure = failure]

\* initialize() choosing the offscreen mode, and handleCreateOffscreenContexts
\* up to its allocation loop: an existing document is closed, the document is
\* created and answers the ping.
OffscreenPlanStart ==
    /\ plan.pc = "idle"
    /\ ~initialized
    /\ ~(committedGB > 30)
    /\ useOffscreenContexts
    /\ doc' = FreshDoc
    /\ plan' = [NoPlan EXCEPT !.pc = "off_loop",
                              !.totalQ = Q(committedGB),
                              !.remainingQ = Q(committedGB),
                              !.numNeeded = CeilDiv(Q(committedGB), MAX_PER_CONTEXT_Q)]
    /\ UNCHANGED <<pmVars, mainVars, touches, genVars, lifeVars, tabs, activeTab, now, hcVars>>

\* The same, when createDocument rejects or the document never answers the
\* ping: the handler's catch block responds with a failure.
OffscreenPlanCreateFails ==
    /\ plan.pc = "idle"
    /\ ~initialized
    /\ ~(committedGB > 30)
    /\ useOffscreenContexts
    /\ doc' = NoDoc
    /\ plan' = [PlanFailed(1, "create") EXCEPT !.totalQ = Q(committedGB),
                                     !.remainingQ = Q(committedGB),
                                     !.numNeeded = CeilDiv(Q(committedGB), MAX_PER_CONTEXT_Q)]
    /\ UNCHANGED <<pmVars, mainVars, touches, genVars, lifeVars, tabs, activeTab, now, hcVars>>

\* The context index and the chunk size of the next iteration of the loop
NextContextIndex ==
    IF plan.inContext >= MAX_PER_CONTEXT_Q THEN plan.index + 1 ELSE plan.index

NextChunkQ ==
    Min(Min(BG_CHUNK_SIZE_Q, plan.remainingQ), LIMIT_WITH_BUFFER_Q - plan.inDocument)

LoopContinues ==
    /\ plan.remainingQ > 0
    /\ ~(plan.inDocument >= LIMIT_WITH_BUFFER_Q)
    /\ ~(NextChunkQ <= 0)

\* One iteration of the allocation loop up to its await: initialize_memory
\* is sent to the document (or the document is found missing).
OffscreenPlanStep ==
    /\ plan.pc = "off_loop"
    /\ LoopContinues
    /\ LET contextId == Ctx("poram_context", NextContextIndex)
       IN  IF ~doc.exists
           THEN /\ plan' = PlanFailed(NextContextIndex + 1, "no_document")
                /\ UNCHANGED doc
           ELSE /\ plan' = [plan EXCEPT !.pc = "off_wait",
                                        !.index = NextContextIndex,
                                        !.inContext = IF plan.inContext >= MAX_PER_CONTEXT_Q
                                                      THEN 0 ELSE @,
                                        !.chunkQ = NextChunkQ,
                                        !.waitCtx = contextId]
                /\ doc' = [doc EXCEPT !.pending = [has |-> TRUE, contextId |-> contextId,
                                                   allocatedQ |-> NextChunkQ]]
    /\ UNCHANGED <<pmVars, mainVars, touches, genVars, lifeVars, tabs, activeTab, now, hcVars>>

\* The document's listener for initialize_memory and initialize() up to its
\* loop: a context id other than the current one resets the memory.
OffscreenInitStart ==
    /\ doc.exists
    /\ doc.pending.has
    /\ LET contextId == doc.pending.contextId
           kept == IF doc.contextId # contextId THEN 0 ELSE doc.memory
       IN  doc' = [doc EXCEPT !.pending = NoPending,
                              !.contextId = contextId,
                              !.memory = kept,
                              !.run = [active |-> TRUE, contextId |-> contextId,
                                       allocatedQ |-> doc.pending.allocatedQ, i |-> 0,
                                       numChunks |-> CeilDiv(doc.pending.allocatedQ, CHUNK_SIZE_Q),
                                       total |-> kept * CHUNK_SIZE_Q]]
    /\ UNCHANGED <<pmVars, mainVars, touches, genVars, lifeVars, tabs, activeTab, now, hcVars, planVars>>

\* One iteration of initialize()'s loop whose allocation succeeds.
OffscreenAllocChunk ==
    /\ doc.exists
    /\ doc.run.active
    /\ doc.run.i < doc.run.numChunks
    /\ ~(doc.run.total + CHUNK_SIZE_Q > LIMIT_WITH_BUFFER_Q)
    /\ doc' = [doc EXCEPT !.memory = @ + 1,
                          !.run.total = @ + CHUNK_SIZE_Q,
                          !.run.i = @ + 1]
    /\ UNCHANGED <<pmVars, mainVars, touches, genVars, lifeVars, tabs, activeTab, now, hcVars, planVars>>

\* An iteration that throws: the limit is reached, or the allocation fails
\* or times out.  offscreen_error is sent.
OffscreenInitFail ==
    /\ doc.exists
    /\ doc.run.active
    /\ doc.run.i < doc.run.numChunks
    /\ doc' = [doc EXCEPT !.run = NoRun,
                          !.sent = [type |-> "offscreen_error",
                                    contextId |-> doc.run.contextId]]
    /\ UNCHANGED <<pmVars, mainVars, touches, genVars, lifeVars, tabs, activeTab, now, hcVars, planVars>>

\* After the loop: initialized = true and offscreen_initialized is sent.
OffscreenInitDone ==
    /\ doc.exists
    /\ doc.run.active
    /\ doc.run.i = doc.run.numChunks
    /\ doc' = [doc EXCEPT !.initialized = TRUE,
                          !.run = NoRun,
                          !.sent = [type |-> "offscreen_initialized",
                                    contextId |-> doc.run.contextId]]
    /\ UNCHANGED <<pmVars, mainVars, touches, genVars, lifeVars, tabs, activeTab, now, hcVars, planVars>>

\* The loop's listener receives offscreen_initialized for the context it
\* waits for; the allocation is tracked.
OffscreenPlanInitOk ==
    /\ plan.pc = "off_wait"
    /\ doc.sent.type = "offscreen_initialized"
    /\ doc.sent.contextId = plan.waitCtx
    /\ plan' = [plan EXCEPT !.pc = "off_loop",
                            !.ids = IF plan.waitCtx \in DOMAIN plan.allocations
                                    THEN @ ELSE Append(@, plan.waitCtx),
                            !.allocations = AddAllocation(@, plan.waitCtx, plan.chunkQ),
                            !.inContext = @ + plan.chunkQ,
                            !.inDocument = @ + plan.chunkQ,
                            !.remainingQ = @ - plan.chunkQ]
    /\ doc' = [doc EXCEPT !.sent = NoSent]
    /\ UNCHANGED <<pmVars, mainVars, touches, genVars, lifeVars, tabs, activeTab, now, hcVars>>

\* The loop's listener receives offscreen_error for the context it waits
\* for: the document is closed and the handler responds with a failure.
OffscreenPlanInitError ==
    /\ plan.pc = "off_wait"
    /\ doc.sent.type = "offscreen_error"
    /\ doc.sent.contextId = plan.waitCtx
    /\ doc' = NoDoc
    /\ plan' = PlanFailed(plan.index + 1, "init_error")
    /\ UNCHANGED <<pmVars, mainVars, touches, genVars, lifeVars, tabs, activeTab, now, hcVars>>

\* The 5-minute timer of the wait fires first: the same failure.
OffscreenPlanInitTimeout ==
    /\ plan.pc = "off_wait"
    /\ doc.sent.type = "none"
    /\ doc' = NoDoc
    /\ plan' = PlanFailed(plan.index + 1, "init_timeout")
    /\ UNCHANGED <<pmVars, mainVars, touches, genVars, lifeVars, tabs, activeTab, now, hcVars>>

\* The loop ends: respond({ success: true, contextIds, allocations }), and
\* initializeWithOffscreenContexts goes on: it records the contexts and
\* starts initializeRemainingInMainContext when memory remains.
OffscreenPlanRespond ==
    /\ plan.pc = "off_loop"
    /\ ~LoopContinues
    /\ plan' = [plan EXCEPT !.pc = "done"]
    /\ offscreenContexts' = plan.ids
    /\ contextAllocations' = plan.allocations
    /\ LET remainingQ == Q(committedGB) - SumValues(plan.allocations)
       IN  IF remainingQ > 0
           THEN /\ mainPc' = "remaining"
                /\ mainI' = 0
                /\ mainNumChunks' = CeilDiv(remainingQ, CHUNK_SIZE_Q)
                /\ mainTotal' = Len(memory) * CHUNK_SIZE_Q
                /\ UNCHANGED <<allocationTime, pauses>>
                /\ UNCHANGED initialized
           ELSE /\ initialized' = TRUE
                /\ UNCHANGED mainVars
    /\ UNCHANGED <<committedGB, memory, keepAliveOn, touches, genVars, lifeVars, unitVars, now,
                   hcVars>>

\* One iteration of initializeRemainingInMainContext's loop.
RemainingAllocChunk ==
    /\ mainPc = "remaining"
    /\ mainI < mainNumChunks
    /\ ~(mainTotal + CHUNK_SIZE_Q > CHROME_MEMORY_LIMIT_Q - 2)
    /\ memory' = Append(memory, NewChunk)
    /\ mainTotal' = mainTotal + CHUNK_SIZE_Q
    /\ UNCHANGED <<allocationTime, pauses>>
    /\ mainI' = mainI + 1
    /\ UNCHANGED <<committedGB, initialized, offscreenContexts, contextAllocations,
                   keepAliveOn, mainPc, mainNumChunks, touches, genVars, lifeVars, unitVars, now,
                   hcVars, planVars>>

\* The loop of initializeRemainingInMainContext about to trip its limit
\* check.
AtLimitMain ==
    /\ mainPc = "remaining"
    /\ mainI < mainNumChunks
    /\ mainTotal + CHUNK_SIZE_Q > CHROME_MEMORY_LIMIT_Q - 2

\* A variant of RemainingDone in which reaching the limit releases the
\* chunks and fails, as initializeInMainContext's own check is written.
RemainingDone_ThrowsAtLimit ==
    /\ mainPc = "remaining"
    /\ IF AtLimitMain
       THEN /\ cleanupMain
            /\ mainPc' = "failed"
       ELSE /\ mainPc' = "done"
            /\ initialized' = TRUE
            /\ UNCHANGED memory
    /\ UNCHANGED <<committedGB, offscreenContexts, contextAllocations,
                   keepAliveOn, mainI, mainNumChunks, mainTotal, allocationTime, pauses,
                   touches, genVars, lifeVars,
                   unitVars, now, hcVars, planVars>>

\* The loop ends (all chunks, or the break at the limit), or an allocation
\* throws, which initializeWithOffscreenContexts catches: initialized = true.
RemainingDone ==
    /\ mainPc = "remaining"
    /\ mainPc' = "done"
    /\ initialized' = TRUE
    /\ UNCHANGED <<committedGB, memory, offscreenContexts, contextAllocations,
                   keepAliveOn, mainI, mainNumChunks, mainTotal, allocationTime, pauses,
                   touches, genVars, lifeVars,
                   unitVars, now, hcVars, planVars>>

(***************************************************************************)
(* Planning above 30 GB, tab mode: initializeWithMultipleTabs,             *)
(* handleCreateMemoryTabs and MemoryTabAllocator.initialize.               *)
(***************************************************************************)
\* The loop iterations of MemoryTabAllocator.initialize taken in one step of
\* the model (each iteration allocates one chunk of 0.25 GB).
TabStride == 29

\* initialize() choosing the tab mode, and handleCreateMemoryTabs up to its
\* loop.
TabPlanStart ==
    /\ plan.pc = "idle"
    /\ ~initialized
    /\ committedGB > 30
    /\ plan' = [NoPlan EXCEPT !.pc = "tab_loop",
                              !.totalQ = Q(committedGB),
                              !.remainingQ = Q(committedGB),
                              !.numNeeded = CeilDiv(Q(committedGB), GB_PER_TAB_Q)]
    /\ UNCHANGED <<pmVars, mainVars, touches, genVars, lifeVars, unitVars, now, hcVars>>

TabLoopContinues ==
    /\ plan.remainingQ > 0
    /\ plan.index < plan.numNeeded

\* A tab's listener for initialize_memory_tab and initialize() up to its
\* loop, whatever tab the message names: this.memory = [] and a new call of
\* initialize() runs beside the calls already running in the tab.
TabInitStart(tab, request) ==
    [tab EXCEPT !.memory = 0,
                !.status = "allocating",
                !.runs = Append(@, [tabId |-> request.tabId,
                                    targetQ |-> request.targetQ,
                                    numChunks |-> CeilDiv(request.targetQ, CHUNK_SIZE_Q),
                                    i |-> 0, total |-> 0])]

\* One iteration of the loop up to the wait for the tab's initialization:
\* the tab is created (not active) and loads, and initialize_memory_tab is
\* sent with chrome.runtime.sendMessage, which every open memory tab receives.
TabPlanCreate ==
    /\ plan.pc = "tab_loop"
    /\ TabLoopContinues
    /\ Len(plan.ids) < MaxTabs
    /\ LET tabId == Len(plan.ids) + 1
           tabQ == Min(GB_PER_TAB_Q, plan.remainingQ)
           request == [targetQ |-> tabQ, tabId |-> tabId]
       IN  /\ tabs' = [t \in TabIds |->
                         IF t = tabId THEN TabInitStart(FreshTab, request)
                         ELSE IF tabs[t].open THEN TabInitStart(tabs[t], request)
                         ELSE tabs[t]]
           /\ plan' = [plan EXCEPT !.pc = "tab_wait",
                                   !.ids = Append(@, Ctx("tab", tabId)),
                                   !.waitTab = tabId,
                                   !.chunkQ = tabQ]
    /\ UNCHANGED <<pmVars, mainVars, touches, genVars, lifeVars, doc, activeTab, now, hcVars>>

\* chrome.tabs.create rejects: the catch block responds with a failure.
TabPlanCreateFails ==
    /\ plan.pc = "tab_loop"
    /\ TabLoopContinues
    /\ plan' = PlanFailed(plan.index + 1, "create")
    /\ UNCHANGED <<pmVars, mainVars, touches, genVars, lifeVars, unitVars, now, hcVars>>

\* The limit check of initialize()'s loop, on the call's own running total
TabAtLimit(run) == run.total + CHUNK_SIZE_Q > CHROME_MEMORY_LIMIT_Q - 2

\* The iterations the call's loop takes in its next step: at most
\* TabStride, and none past numChunks or past the limit check.
TabIterations(run) ==
    Min(Min(TabStride, run.numChunks - run.i),
        (CHROME_MEMORY_LIMIT_Q - 2 - run.total) \div CHUNK_SIZE_Q)

\* After n more iterations the loop is over: i reaches numChunks or the
\* limit check breaks.
TabLoopEnds(run, n) ==
    \/ run.i + n = run.numChunks
    \/ run.total + n * CHUNK_SIZE_Q + CHUNK_SIZE_Q > CHROME_MEMORY_LIMIT_Q - 2

\* A variant of the listener that tracks the allocation without reducing
\* what remains to be requested.
OnMemoryTabInitialized_KeepsRemaining(tabId, allocatedQ) ==
    IF plan.pc = "tab_wait" /\ plan.waitTab = tabId
    THEN [plan EXCEPT !.pc = "tab_loop",
                      !.waitTab = 0,
                      !.allocations = AddAllocation(@, Ctx("tab", tabId), allocatedQ),
                      !.index = @ + 1]
    ELSE plan

\* A variant of the listener that resolves the wait and records nothing, so
\* that the loop asks for the same tab again.
OnMemoryTabInitialized_KeepsIndex(tabId, allocatedQ) ==
    IF plan.pc = "tab_wait" /\ plan.waitTab = tabId
    THEN [plan EXCEPT !.pc = "tab_loop", !.waitTab = 0]
    ELSE plan

\* messageListener of handleCreateMemoryTabs on memory_tab_initialized: it
\* resolves the wait registered for message.tabId, if there is one, and the
\* loop tracks the allocation.
OnMemoryTabInitialized(tabId, allocatedQ) ==
    IF plan.pc = "tab_wait" /\ plan.waitTab = tabId
    THEN [plan EXCEPT !.pc = "tab_loop",
                      !.waitTab = 0,
                      !.allocations = AddAllocation(@, Ctx("tab", tabId), allocatedQ),
                      !.remainingQ = @ - allocatedQ,
                      !.index = @ + 1]
    ELSE plan

\* messageListener on memory_tab_error: it rejects the wait registered for
\* message.tabId, if there is one, and the catch block responds with a failure.
OnMemoryTabError(tabId) ==
    IF plan.pc = "tab_wait" /\ plan.waitTab = tabId
    THEN PlanFailed(plan.index + 1, "init_error")
    ELSE plan

\* Up to TabStride iterations of the loop of the tab's k-th running call,
\* each pushing a chunk onto this.memory, when the loop goes on afterwards.
TabAllocChunks(t, k) ==
    /\ tabs[t].open
    /\ k \in 1..Len(tabs[t].runs)
    /\ LET run == tabs[t].runs[k]
           n == TabIterations(run)
       IN  /\ n > 0
           /\ ~TabLoopEnds(run, n)
           /\ tabs' = [tabs EXCEPT ![t].memory = @ + n,
                                   ![t].status = "allocating",
                                   ![t].runs[k].i = @ + n,
                                   ![t].runs[k].total = @ + n * CHUNK_SIZE_Q]
    /\ UNCHANGED <<pmVars, mainVars, touches, genVars, lifeVars, doc, activeTab, now, hcVars, planVars>>

\* The last iterations of the loop and what follows it: initialized = true
\* and memory_tab_initialized is sent with the tab id of the request and the
\* call's own total.
TabInitDone(t, k) ==
    /\ tabs[t].open
    /\ k \in 1..Len(tabs[t].runs)
    /\ LET run == tabs[t].runs[k]
           n == TabIterations(run)
       IN  /\ TabLoopEnds(run, n)
           /\ plan' = OnMemoryTabInitialized(run.tabId, run.total + n * CHUNK_SIZE_Q)
           /\ tabs' = [tabs EXCEPT ![t].memory = @ + n,
                                   ![t].initialized = TRUE,
                                   ![t].status = "allocated",
                                   ![t].runs = RemoveAt(@, k)]
    /\ UNCHANGED <<pmVars, mainVars, touches, genVars, lifeVars, doc, activeTab, now, hcVars>>

\* An allocation of the call throws: memory_tab_error is sent.
TabAllocFail(t, k) ==
    /\ tabs[t].open
    /\ k \in 1..Len(tabs[t].runs)
    /\ tabs[t].runs[k].i < tabs[t].runs[k].numChunks
    /\ ~TabAtLimit(tabs[t].runs[k])
    /\ tabs' = [tabs EXCEPT ![t].runs = RemoveAt(@, k), ![t].status = "error"]
    /\ plan' = OnMemoryTabError(tabs[t].runs[k].tabId)
    /\ UNCHANGED <<pmVars, mainVars, touches, genVars, lifeVars, doc, activeTab, now, hcVars>>

\* The 5-minute timer of the wait fires: the catch block responds with a
\* failure.
TabPlanInitTimeout ==
    /\ plan.pc = "tab_wait"
    /\ plan' = PlanFailed(plan.index + 1, "init_timeout")
    /\ UNCHANGED <<pmVars, mainVars, touches, genVars, lifeVars, unitVars, now, hcVars>>

\* The loop ends: respond({ success: true, tabIds, allocations }), and
\* initializeWithMultipleTabs records the tabs and sets initialized.
TabPlanRespond ==
    /\ plan.pc = "tab_loop"
    /\ ~TabLoopContinues
    /\ plan' = [plan EXCEPT !.pc = "done"]
    /\ offscreenContexts' = plan.ids
    /\ contextAllocations' = plan.allocations
    /\ initialized' = TRUE
    /\ UNCHANGED <<committedGB, memory, keepAliveOn, mainVars, touches, genVars, lifeVars, unitVars,
                   now, hcVars>>

(***************************************************************************)
(* The miner's life in background.js: startMiner, WebSocketMiner.start,    *)
(* register, handleSaveConfig, stopMiner.                                  *)
(***************************************************************************)
\* startMiner's catch block: poram.initialize() threw (the planner answered
\* with a failure, or the main-context allocation failed), so start() threw:
\* miner = null and { success: false } is returned.
StartMinerCatch ==
    /\ miner
    /\ startResponse = "pending"
    /\ plan.pc = "failed" \/ mainPc = "failed"
    /\ miner' = FALSE
    /\ startResponse' = "failed"
    /\ answer' = Reply("startMiner", FALSE, "error")
    /\ UNCHANGED <<pmVars, mainVars, touches, genVars, unitVars, now, hcVars, planVars,
                   minerConfig, registerMsg, zombieQ, starts, ident, miners>>

\* poram.initialize() returned: start() opens the WebSocket (connect returns
\* once the handlers are set) and startMiner returns { success: true }.
StartMinerReturn ==
    /\ miner
    /\ startResponse = "pending"
    /\ initialized
    /\ startResponse' = "success"
    /\ answer' = Reply("startMiner", TRUE, "")
    /\ miners' = [miners EXCEPT ![starts] = connect(@)]
    /\ UNCHANGED <<pmVars, mainVars, touches, genVars, unitVars, now, hcVars, planVars,
                   miner, minerConfig, registerMsg, zombieQ, starts, ident>>

\* ws.onopen -> register(): capacity_gb is this.config.max_ram_gb, the value
\* the PoRAMManager was constructed with (this.config is the object passed to
\* the constructor; a later saveConfig installs another object), and node_id
\* is this.config.node_id || "".
Register ==
    /\ miner
    /\ startResponse = "success"
    /\ registerMsg = 0
    /\ miners[starts].ws # 0
    /\ miners[starts].socks[miners[starts].ws] = "connecting"
    /\ registerMsg' = committedGB
    /\ ident' = [ident EXCEPT !.registerNodeId = ident.minerNodeId]
    /\ miners' = [miners EXCEPT ![starts] = onopen(@, @.ws)]
    /\ UNCHANGED <<pmVars, mainVars, touches, genVars, unitVars, now, hcVars, planVars,
                   miner, minerConfig, startResponse, answer, zombieQ, starts>>

\* PoRAMManager.getStats().committed_gb, shown by the popup as the RAM
\* committed.
getStats_committed_gb == committedGB

InitPlan ==
    /\ committedGB \in PlanGBs
    /\ PmFresh
    /\ MainIdle
    /\ touches = 0
    /\ genFirst = NoCall
    /\ enc = NoEnc
    /\ route = NoRoute
    /\ genLast = NoCall
    /\ genIn = NoCall
    /\ UnitsNone
    /\ now = 0
    /\ HcIdle
    /\ PlanIdle
    /\ LifeStarting

NextPlan ==
    \/ OffscreenPlanStart
    \/ OffscreenPlanCreateFails
    \/ OffscreenPlanStep
    \/ OffscreenInitStart
    \/ OffscreenAllocChunk
    \/ OffscreenInitFail
    \/ OffscreenInitDone
    \/ OffscreenPlanInitOk
    \/ OffscreenPlanInitError
    \/ OffscreenPlanInitTimeout
    \/ OffscreenPlanRespond
    \/ RemainingAllocChunk
    \/ RemainingDone
    \/ TabPlanStart
    \/ TabPlanCreate
    \/ TabPlanCreateFails
    \/ \E t \in TabIds : \E k \in 1..Len(tabs[t].runs) : TabAllocChunks(t, k)
    \/ \E t \in TabIds : \E k \in 1..Len(tabs[t].runs) : TabAllocFail(t, k)
    \/ \E t \in TabIds : \E k \in 1..Len(tabs[t].runs) : TabInitDone(t, k)
    \/ TabPlanInitTimeout
    \/ TabPlanRespond
    \/ StartMinerCatch
    \/ StartMinerReturn
    \/ Register

SpecPlan == InitPlan /\ [][NextPlan]_vars

\* initialize() for every commitment the configuration allows up to
\* MaxStrategyGB: the first step of whichever allocation it calls.
MaxStrategyGB == 64

StrategyGBs == 1..MaxStrategyGB

InitStrategy ==
    /\ committedGB \in StrategyGBs
    /\ PmFresh
    /\ MainIdle
    /\ touches = 0
    /\ genFirst = NoCall
    /\ enc = NoEnc
    /\ route = NoRoute
    /\ genLast = NoCall
    /\ genIn = NoCall
    /\ UnitsNone
    /\ now = 0
    /\ HcIdle
    /\ PlanIdle
    /\ LifeStarting

NextStrategy ==
    \/ MainInitStart
    \/ OffscreenPlanStart
    \/ TabPlanStart

SpecStrategy == InitStrategy /\ [][NextStrategy]_vars

\* The RAM commitments the setup wizard may save (all served by the main
\* context).
ConfigGBs == {1, 2}

\* The miners constructed in one behaviour.
MaxStarts == 2

\* The node_id of a configuration a saveConfig message carries: the setup
\* wizard sends "" unless it found an earlier configuration with a node_id.
NodeIds == {"", "n1"}

\* The node_id of a welcome message ("": the message has none).
WelcomeIds == {"", "n1", "n2"}

\* isConfigComplete(config), for a configuration that has a wallet address.
isConfigComplete(nodeId, maxRamGb) ==
    /\ nodeId # ""
    /\ maxRamGb > 0
    /\ ~(maxRamGb > 128)

MissingNodeId == "Cannot start miner: configuration incomplete. Missing node ID."

\* handleSaveConfig: minerConfig = config, stored, { success: true }.  The
\* running miner keeps the config object it was constructed with.
SaveConfig ==
    /\ \E g \in ConfigGBs : minerConfig' = g
    /\ \E id \in NodeIds :
          ident' = [ident EXCEPT !.node_id = id, !.stored = id, !.shared = FALSE]
    /\ answer' = Reply("saveConfig", TRUE, "")
    /\ UNCHANGED <<pmVars, mainVars, touches, genVars, unitVars, now, hcVars, planVars,
                   miner, registerMsg, startResponse, zombieQ, starts, miners>>

\* handleStartMiner -> startMiner up to its await.  With a miner it answers
\* 'Miner already running' and does nothing else.  Without one it constructs
\* a WebSocketMiner, and with it a fresh PoRAMManager, from minerConfig, and
\* awaits start(); the manager of a stopped miner stays referenced by its own
\* timers, and so do its chunks.
StartMiner ==
    IF miner
    THEN /\ answer' = Reply("startMiner", TRUE, "Miner already running")
         /\ UNCHANGED <<pmVars, mainVars, touches, genVars, unitVars, now, hcVars,
                        planVars, miner, minerConfig, registerMsg, startResponse,
                        zombieQ, starts, ident, miners>>
    ELSE IF ~isConfigComplete(ident.node_id, minerConfig)
    THEN /\ answer' = Reply("startMiner", FALSE, MissingNodeId)
         /\ UNCHANGED <<pmVars, mainVars, touches, genVars, unitVars, now, hcVars,
                        planVars, miner, minerConfig, registerMsg, startResponse,
                        zombieQ, starts, ident, miners>>
    ELSE /\ starts < MaxStarts
         /\ miner' = TRUE
         /\ starts' = starts + 1
         /\ zombieQ' = zombieQ + Len(memory) * CHUNK_SIZE_Q
         /\ committedGB' = minerConfig
         /\ memory' = <<>>
         /\ initialized' = FALSE
         /\ offscreenContexts' = <<>>
         /\ contextAllocations' = EmptyMap
         /\ keepAliveOn' = FALSE
         /\ mainPc' = "idle"
         /\ mainI' = 0
         /\ mainNumChunks' = 0
         /\ mainTotal' = 0
         /\ allocationTime' = 0
         /\ pauses' = <<>>
         /\ registerMsg' = 0
         /\ startResponse' = "pending"
         /\ ident' = [ident EXCEPT !.minerNodeId = ident.node_id, !.shared = TRUE,
                                   !.registerNodeId = None, !.registered = FALSE]
         /\ miners' = Append(miners, NewMiner)
         /\ UNCHANGED <<touches, genVars, unitVars, now, hcVars, planVars, minerConfig,
                        answer>>

\* handleStopMiner -> stopMiner -> WebSocketMiner.stop(): the heartbeat and
\* the reconnect timer are cleared, the socket is closed and the vectors are
\* saved; then miner = null.  Nothing of the PoRAMManager is called.
StopMiner ==
    /\ IF miner
       THEN /\ miner' = FALSE
            /\ miners' = [miners EXCEPT ![starts] = stop(@)]
            /\ answer' = Reply("stopMiner", TRUE, "")
       ELSE /\ answer' = Reply("stopMiner", TRUE, "Miner not running")
            /\ UNCHANGED <<miner, miners>>
    /\ UNCHANGED <<pmVars, mainVars, touches, genVars, unitVars, now, hcVars, planVars,
                   minerConfig, registerMsg, startResponse, zombieQ, starts, ident>>

\* stopMiner when engine.saveAll() rejects inside stop(), after the timers
\* were cleared and the socket closed: the catch block answers with a failure
\* and miner stays set.
StopMinerCatch ==
    /\ miner
    /\ miners' = [miners EXCEPT ![starts] = stop(@)]
    /\ answer' = Reply("stopMiner", FALSE, "error")
    /\ UNCHANGED <<pmVars, mainVars, touches, genVars, unitVars, now, hcVars, planVars,
                   miner, minerConfig, registerMsg, startResponse, zombieQ, starts, ident>>

\* The life of a miner that runs in one of the three modes: configuration
\* changes, stop requests, start requests, and the start of the miner that a
\* start request constructs.
NextLife ==
    \/ SaveConfig
    \/ StartMiner
    \/ StopMiner
    \/ StopMinerCatch
    \/ MainInitStart
    \/ MainAllocChunk
    \/ MainAllocFail
    \/ MainInitDone
    \/ StartMinerCatch
    \/ StartMinerReturn
    \/ Register

SpecLife == InitChallenge /\ [][NextLife]_vars

\* handleWelcome: registered = true; a node_id in the message that differs
\* from this.config.node_id is written into this.config, which is the object
\* minerConfig refers to unless a configuration was saved since the miner was
\* constructed.  onConfigUpdate is undefined (startMiner passes one argument
\* to the constructor), so nothing is stored.
HandleWelcome ==
    /\ miner
    /\ ident.registerNodeId # None
    /\ \E s \in 1..Len(miners[starts].socks) : miners[starts].socks[s] = "open"
    /\ \E id \in WelcomeIds :
          ident' = IF id # "" /\ id # ident.minerNodeId
                   THEN [ident EXCEPT !.registered = TRUE, !.minerNodeId = id,
                                      !.node_id = IF ident.shared THEN id ELSE @]
                   ELSE [ident EXCEPT !.registered = TRUE]
    /\ miners' = [miners EXCEPT ![starts] = confirmRegistration(@)]
    /\ UNCHANGED <<pmVars, mainVars, touches, genVars, unitVars, now, hcVars, planVars,
                   miner, minerConfig, registerMsg, startResponse, answer, zombieQ, starts>>

\* chrome.runtime.onStartup -> loadConfigAndStart, in the worker of a browser
\* that was just launched: nothing of the previous worker, its miner or its
\* units exists.  minerConfig is read from chrome.storage.local and, when
\* isConfigComplete, startMiner constructs the miner from it.
OnStartup ==
    /\ starts < MaxStarts
    /\ HcIdle
    /\ PlanIdle
    /\ committedGB' = minerConfig
    /\ memory' = <<>>
    /\ initialized' = FALSE
    /\ offscreenContexts' = <<>>
    /\ contextAllocations' = EmptyMap
    /\ keepAliveOn' = FALSE
    /\ mainPc' = "idle"
    /\ mainI' = 0
    /\ mainNumChunks' = 0
    /\ mainTotal' = 0
    /\ allocationTime' = 0
    /\ pauses' = <<>>
    /\ doc' = NoDoc
    /\ tabs' = [t \in TabIds |-> NoTab]
    /\ activeTab' = 0
    /\ zombieQ' = 0
    /\ registerMsg' = 0
    /\ answer' = NoAnswer
    /\ IF isConfigComplete(ident.stored, minerConfig)
       THEN /\ miner' = TRUE
            /\ starts' = starts + 1
            /\ startResponse' = "pending"
            /\ miners' = [k \in 1..(starts + 1) |-> NewMiner]
       ELSE /\ miner' = FALSE
            /\ startResponse' = "none"
            /\ miners' = [k \in 1..starts |-> NewMiner]
            /\ UNCHANGED starts
    /\ ident' = [Ident(ident.stored, None) EXCEPT !.registered = FALSE]
    /\ UNCHANGED <<touches, genVars, now, hcVars, planVars, minerConfig>>

\* The life of a miner and of its node_id: as NextLife, with the coordinator's
\* welcome and the launches of the browser.
NextIdentity ==
    \/ SaveConfig
    \/ StartMiner
    \/ StopMiner
    \/ StopMinerCatch
    \/ MainInitStart
    \/ MainAllocChunk
    \/ MainAllocFail
    \/ MainInitDone
    \/ StartMinerCatch
    \/ StartMinerReturn
    \/ Register
    \/ HandleWelcome
    \/ OnStartup

SpecIdentity == InitChallenge /\ [][NextIdentity]_vars

(***************************************************************************)
(* The sockets and timers of the miners at work.                           *)
\* One step of WebSocketMiner k that leaves it as c: ident.registered is the
\* flag of the miner constructed last.
MinerStep(k, c) ==
    /\ miners' = [miners EXCEPT ![k] = c]
    /\ ident' = IF k = starts THEN [ident EXCEPT !.registered = c.registered] ELSE ident
    /\ UNCHANGED <<pmVars, mainVars, touches, genVars, unitVars, now, hcVars, planVars,
                   miner, minerConfig, registerMsg, startResponse, answer, zombieQ, starts>>

\* ws.onopen of a socket other than the first one of the running miner (that
\* one is Register).
SocketOpen(k, s) ==
    /\ miners[k].socks[s] = "connecting"
    /\ ~(k = starts /\ miner /\ startResponse = "success" /\ registerMsg = 0)
    /\ CanRegister(miners[k])
    /\ MinerStep(k, onopen(miners[k], s))

\* The connection of an open socket is lost: readyState leaves OPEN before
\* any handler runs.
SocketDrop(k, s) ==
    /\ miners[k].socks[s] = "open"
    /\ MinerStep(k, [miners[k] EXCEPT !.socks[s] = "closing",
                                      !.confirmed = IF s = miners[k].ws THEN FALSE ELSE @])

\* ws.onerror: the connection failed or broke.
SocketError(k, s) ==
    /\ miners[k].socks[s] \in {"connecting", "open"}
    /\ MinerStep(k, onerror(miners[k], s))

\* ws.onclose: after an error, after close(), or when the coordinator closes
\* an open socket.
SocketClose(k, s) ==
    /\ miners[k].socks[s] \in {"open", "closing"}
    /\ MinerStep(k, onclose(miners[k], s))

\* A reconnect timeout set by onclose fires: connect().  latest: it is the
\* one whose handle this.reconnectTimeout holds.
ReconnectTimer(k, latest) ==
    LET c == miners[k]
    IN  /\ IF latest
           THEN c.reconnectLive
           ELSE c.reconnectTimers > (IF c.reconnectLive THEN 1 ELSE 0)
        /\ CanConnect(c)
        /\ MinerStep(k, connect([c EXCEPT !.reconnectTimers = @ - 1,
                                          !.reconnectLive = IF latest THEN FALSE ELSE @]))

\* A registration retry timeout fires: those of register() and of a failed
\* register_response call register() unless registered, the one of a
\* coordinator error calls it in any case.
RegisterRetry(k, always) ==
    LET c == miners[k]
    IN  IF always
        THEN /\ c.retriesAlways > 0
             /\ MinerStep(k, register([c EXCEPT !.retriesAlways = @ - 1]))
        ELSE /\ c.retries > 0
             /\ MinerStep(k, IF ~c.registered
                             THEN register([c EXCEPT !.retries = @ - 1])
                             ELSE [c EXCEPT !.retries = @ - 1])

\* handleRegisterResponse, for a register_response that arrives on socket s.
RegisterResponse(k, s, ok) ==
    /\ miners[k].socks[s] = "open"
    /\ IF ok
       THEN MinerStep(k, confirmRegistration(miners[k]))
       ELSE /\ CanRegister(miners[k])
            /\ MinerStep(k, [miners[k] EXCEPT !.registered = FALSE, !.retries = @ + 1])

\* handleMessage, case 'error' with a message about the secret, the signature
\* or the registration: registered = false and register() in 10 s.
CoordinatorError(k, s) ==
    /\ miners[k].socks[s] = "open"
    /\ CanRegister(miners[k])
    /\ MinerStep(k, [miners[k] EXCEPT !.registered = FALSE, !.retriesAlways = @ + 1])

\* A heartbeat interval fires: sendHeartbeat().
HeartbeatTimer(k) ==
    /\ miners[k].hbTimers > 0
    /\ MinerStep(k, sendHeartbeat(miners[k]))

\* The miners constructed so far and the sockets each has created.
MinerIds == 1..Len(miners)

SocketIds(k) == 1..Len(miners[k].socks)

\* A running miner, its sockets, its timers, its coordinator and the stop
\* requests.
NextConnection ==
    \/ \E k \in MinerIds : \E s \in SocketIds(k) : SocketOpen(k, s)
    \/ \E k \in MinerIds : \E s \in SocketIds(k) : SocketDrop(k, s)
    \/ \E k \in MinerIds : \E s \in SocketIds(k) : SocketError(k, s)
    \/ \E k \in MinerIds : \E s \in SocketIds(k) : SocketClose(k, s)
    \/ \E k \in MinerIds : \E s \in SocketIds(k) : \E ok \in BOOLEAN :
          RegisterResponse(k, s, ok)
    \/ \E k \in MinerIds : \E s \in SocketIds(k) : CoordinatorError(k, s)
    \/ \E k \in MinerIds : \E latest \in BOOLEAN : ReconnectTimer(k, latest)
    \/ \E k \in MinerIds : \E always \in BOOLEAN : RegisterRetry(k, always)
    \/ \E k \in MinerIds : HeartbeatTimer(k)
    \/ HandleWelcome
    \/ StopMiner
    \/ StopMinerCatch

SpecConnection == InitChallenge /\ [][NextConnection]_vars

\* Start and stop requests, the start of the miner a start request
\* constructs, and the sockets and reconnect timers of the miners.
NextMiners ==
    \/ StartMiner
    \/ StopMiner
    \/ MainInitStart
    \/ MainAllocChunk
    \/ MainInitDone
    \/ StartMinerReturn
    \/ Register
    \/ \E k \in MinerIds : \E s \in SocketIds(k) : SocketOpen(k, s)
    \/ \E k \in MinerIds : \E s \in SocketIds(k) : SocketClose(k, s)
    \/ \E k \in MinerIds : \E latest \in BOOLEAN : ReconnectTimer(k, latest)

SpecMiners == InitChallenge /\ [][NextMiners]_vars

(***************************************************************************)
(* Properties of the generator.                                            *)
(***************************************************************************)
\* The index of a base64 character in btoa's alphabet (0 for the padding).
B64Index(c) == IF c = "=" THEN 0 ELSE (CHOOSE k \in 1..64 : B64Alphabet[k] = c) - 1

\* atob: the bytes a base64 string stands for.
RECURSIVE Base64Decode(_)
Base64Decode(str) ==
    IF Len(str) < 4 THEN <<>>
    ELSE LET v == [k \in 1..4 |-> B64Index(str[k])]
             three == <<v[1] * 4 + (v[2] \div 16),
                        (v[2] % 16) * 16 + (v[3] \div 4),
                        (v[3] % 4) * 64 + v[4]>>
             n == IF str[3] = "=" THEN 1 ELSE IF str[4] = "=" THEN 2 ELSE 3
         IN  SubSeq(three, 1, n) \o Base64Decode(SubSeq(str, 5, Len(str)))

RECURSIVE Pow256(_)
Pow256(e) == IF e = 0 THEN 1 ELSE 256 * Pow256(e - 1)

\* The 8-byte big-endian encoding of n, 0 <= n < 2^31: byte k (1..8) is
\* floor(n / 256^(8-k)) mod 256, which is 0 for the four high bytes.
BigEndian64(n) ==
    [k \in 1..8 |-> IF k <= 4 THEN 0 ELSE (n \div Pow256(8 - k)) % 256]

\* C6: generateChunk returns (base64 of) exactly L bytes, and byte i of them
\* is byte (i mod 32) of the digest of seed || bigEndian64(offset + 32*floor(i/32));
\* so for L = 40 the first 32 bytes are the digest at offset and the last 8
\* the first 8 bytes of the digest at offset + 32.
C6_ChunkBytes ==
    genLast.made =>
        LET data == Base64Decode(genLast.out)
            seed == hexToBytes(genLast.seed)
        IN  /\ Len(data) = genLast.size
            /\ \A i \in 0..(genLast.size - 1) :
                  data[i + 1] =
                      sha256(seed \o BigEndian64(genLast.offset + 32 * (i \div 32)))[(i % 32) + 1]

\* A chunk of 40 bytes was generated at an offset whose low byte is not 0
\* and whose cursor crosses into the next 256-block.
C6_Witness ==
    /\ genLast.made
    /\ genLast.size = 40
    /\ genLast.offset = 65535
    /\ Len(genLast.out) = 56

C1_OffsetOrder ==
    hcPc = "returned" =>
        /\ Len(response.chunks) = Len(challenge.offsets)
        /\ \A i \in 1..Len(challenge.offsets) :
              response.chunks[i] = generateChunk(challenge.epoch_seed,
                                                 challenge.offsets[i],
                                                 challenge.chunk_size)

\* A challenge for two different offsets succeeded after the reply for the
\* second offset was taken before the reply for the first.
C1_Witness ==
    /\ hcPc = "returned"
    /\ Len(challenge.offsets) = 2
    /\ challenge.offsets[1] # challenge.offsets[2]
    /\ arrival = <<2, 1>>

C3_WithinDeadline ==
    response.sent => assembledAt - startTime <= challenge.deadline_ms

\* C4: the response has one slot per requested offset and the slot of every
\* offset whose generation completed holds its chunk, also when the
\* generation of another offset failed.
C4_CompletedChunksKept ==
    response.sent =>
        /\ Len(response.chunks) = Len(challenge.offsets)
        /\ \A i \in 1..Len(req) :
              req[i].status = "fulfilled" => response.chunks[i] = req[i].reply.chunk

\* C5: response_time_ms of every response, the one returned on a failure
\* included, is the time between the receipt of the challenge and the
\* assembly of the response.
C5_ResponseTimeElapsed ==
    response.sent => response.response_time_ms = assembledAt - startTime

(***************************************************************************)
(* Properties of planning.                                                 *)
(***************************************************************************)
\* What the manager records as allocated: the sum of contextAllocations
\* plus the chunks of the main context, in quarters of a GB.
RecordedQ == SumValues(contextAllocations) + Len(memory) * CHUNK_SIZE_Q

\* What the units hold: the chunks of the main context, of the offscreen
\* document and of every memory tab.
RECURSIVE TabsHeld(_)
TabsHeld(t) == IF t = 0 THEN 0 ELSE tabs[t].memory + TabsHeld(t - 1)

HeldQ == (Len(memory) + doc.memory + TabsHeld(MaxTabs)) * CHUNK_SIZE_Q

\* No initialize() call is running in any unit.
UnitsQuiet ==
    /\ ~doc.run.active
    /\ ~doc.pending.has
    /\ \A t \in TabIds : tabs[t].runs = <<>>

\* C8: once planning has completed, the total the manager records as
\* allocated is the memory the units hold.
C8_RecordedIsHeld ==
    (initialized /\ plan.pc = "done" /\ UnitsQuiet) => RecordedQ = HeldQ

\* C9: the memory held inside a unit (main context, offscreen document,
\* each memory tab) never exceeds 15 GB, during allocation and after it.
C9_UnitWithinCeiling ==
    /\ Len(memory) * CHUNK_SIZE_Q <= CHROME_MEMORY_LIMIT_Q
    /\ doc.memory * CHUNK_SIZE_Q <= CHROME_MEMORY_LIMIT_Q
    /\ \A t \in TabIds : tabs[t].memory * CHUNK_SIZE_Q <= CHROME_MEMORY_LIMIT_Q

\* C10: when the allocation of unit 2 of a 4-unit plan fails, planning still
\* yields a result: the manager is initialized with unit 1 alone and a
\* positive shortfall.
C10_PartialPlanKept ==
    (plan.numNeeded = 4 /\ plan.failedUnit = 2 /\ plan.failure = "init_error") =>
        /\ initialized
        /\ Len(offscreenContexts) = 1
        /\ Q(committedGB) - RecordedQ > 0

\* The per-unit maximum the planner of the mode divides the total by:
\* maxPerContext in offscreen mode, gbPerTab in tab mode.
UnitMaxQ == IF committedGB > 30 THEN GB_PER_TAB_Q ELSE MAX_PER_CONTEXT_Q

\* C11: when the total is exactly N times the per-unit maximum and nothing
\* fails, the plan has exactly N units and its allocations add up to the
\* total.
C11_ExactMultipleFullyAllocated ==
    (plan.pc = "done" /\ plan.totalQ = plan.numNeeded * UnitMaxQ) =>
        /\ Len(plan.ids) = plan.numNeeded
        /\ SumValues(plan.allocations) = plan.totalQ


\* C12: once the miner has announced itself, the capacity it announced and
\* the capacity its statistics report are the amount the manager recorded as
\* allocated (its main-context chunks plus the planned allocations), so a
\* shortfall against committedGB shows in both.
C12_ShortfallSurfaced ==
    registerMsg # 0 =>
        /\ Q(registerMsg) = RecordedQ
        /\ Q(getStats_committed_gb) = RecordedQ


\* C13: while a unit stays in existence (the offscreen document is not
\* closed, the tab stays open) no step takes chunks out of its chunk list: an
\* initialize request that reaches a unit already holding chunks leaves them
\* in place.
C13_ChunksStay ==
    [][/\ (doc.exists /\ doc'.exists) => doc'.memory >= doc.memory
       /\ \A t \in TabIds :
             (tabs[t].open /\ tabs'[t].open) => tabs'[t].memory >= tabs[t].memory]_vars


\* The planner's loop over the single document, and the loop of the
\* document's initialize(), about to trip their limit checks.
AtLimitPlan ==
    /\ plan.pc = "off_loop"
    /\ plan.remainingQ > 0
    /\ plan.inDocument >= LIMIT_WITH_BUFFER_Q

AtLimitDocument ==
    /\ doc.exists
    /\ doc.run.active
    /\ doc.run.i < doc.run.numChunks
    /\ doc.run.total + CHUNK_SIZE_Q > LIMIT_WITH_BUFFER_Q

C15_TimeoutAbortsAndReleases ==
    allocationTime > ALLOC_TIMEOUT_S =>
        /\ mainPc = "failed"
        /\ memory = <<>>


\* C16: when the host refuses to create a unit after earlier units of the
\* plan were allocated, the planner answers with success and the manager
\* records the units and allocations gathered so far.
C16_CreationFailureKeepsUnits ==
    (plan.failure = "create" /\ plan.failedUnit > 1) =>
        /\ plan.pc = "done"
        /\ offscreenContexts = plan.ids
        /\ contextAllocations = plan.allocations


\* The bytes of a quarter of a GB, the unit the allocations are counted in.
QUARTER_BYTES == 268435456

\* An offset at or past the end of what the manager records as allocated.
OffsetOutOfRange(offset) == offset \div QUARTER_BYTES >= RecordedQ

\* C17: in a response returned for a challenge, the slot of an offset that
\* lies beyond the allocated bytes is empty: no chunk was generated for it.
C17_OutOfRangeSlotEmpty ==
    hcPc = "returned" =>
        \A i \in 1..Len(challenge.offsets) :
            OffsetOutOfRange(challenge.offsets[i]) =>
                /\ i <= Len(response.chunks)
                /\ response.chunks[i] = <<>>


\* The global address space laid over the recorded units in their order:
\* unit k holds the quarters from RangeStartQ(k) up to RangeStartQ(k + 1).
RECURSIVE RangeStartQ(_)
RangeStartQ(k) ==
    IF k <= 1 THEN 0
    ELSE RangeStartQ(k - 1) + contextAllocations[offscreenContexts[k - 1]]

\* The index of the unit whose range holds the offset (0: none of them).
OwnerIndex(offset) ==
    LET q == offset \div QUARTER_BYTES
        owners == {k \in 1..Len(offscreenContexts) :
                      /\ RangeStartQ(k) <= q
                      /\ q < RangeStartQ(k + 1)}
    IN  IF owners = {} THEN 0 ELSE CHOOSE k \in owners : TRUE

\* C18: every generate request of a challenge is addressed to the unit whose
\* byte range holds the request's offset.
C18_RoutedToOwner ==
    \A i \in 1..Len(req) :
        LET k == OwnerIndex(req[i].offset)
        IN  k # 0 =>
              req[i].unit = IF IsTabCtx(offscreenContexts[k])
                            THEN offscreenContexts[k].n
                            ELSE offscreenContexts[k]


\* C19: once stopMiner has answered that the miner is stopped, no unit holds
\* memory: the main-context chunks are dropped, the offscreen document is
\* closed and no memory tab holds chunks.
C19_StoppedReleasesUnits ==
    (answer.to = "stopMiner" /\ answer.success /\ ~miner) =>
        /\ memory = <<>>
        /\ zombieQ = 0
        /\ ~doc.exists
        /\ \A t \in TabIds : tabs[t].memory = 0

\* C20: startMiner answers a request made while a miner runs only when the
\* running miner's commitment is the configured one: after a change of the
\* configuration the units are rebuilt for the new commitment.
C20_ReconfigureRebuilds ==
    (miner /\ answer.to = "startMiner" /\ answer.message = "Miner already running") =>
        committedGB = minerConfig


\* C21: once the manager is initialized, no unit it recorded is one whose
\* allocation failed: no recorded memory tab shows an allocation error, and
\* a recorded offscreen context is backed by an initialized document.
C21_NoFailedUnitRecorded ==
    initialized =>
        \A k \in 1..Len(offscreenContexts) :
            IF IsTabCtx(offscreenContexts[k])
            THEN tabs[offscreenContexts[k].n].status # "error"
            ELSE doc.exists /\ doc.initialized


\* C22: once the allocation has completed, in whatever mode, the keep-alive
\* interval timer is running.
C22_KeepAliveInEveryMode ==
    initialized => keepAliveOn


\* The planner is waiting for the unit it has just asked to allocate.
PlanWaiting == plan.pc \in {"off_wait", "tab_wait"}

\* C23: the planner names at most ceil(total / per-unit maximum) units; what
\* it has had allocated, together with the amount of the request it is
\* waiting for, never exceeds the total; and it makes a request only while
\* something remains to be allocated.
C23_PlanWithinTotal ==
    /\ Len(plan.ids) <= plan.numNeeded
    /\ SumValues(plan.allocations) <= plan.totalQ
    /\ PlanWaiting =>
          /\ plan.chunkQ > 0
          /\ plan.chunkQ <= plan.remainingQ
          /\ SumValues(plan.allocations) + plan.chunkQ <= plan.totalQ

\* A tab plan that ended with every needed tab created and the allocations
\* adding up to the total, the last tab being asked for less than a full tab.
C23_Witness ==
    /\ plan.pc = "done"
    /\ committedGB > 30
    /\ Len(plan.ids) = plan.numNeeded
    /\ SumValues(plan.allocations) = plan.totalQ
    /\ plan.chunkQ < GB_PER_TAB_Q


\* The chunk generations in flight: the generate requests sent and not yet
\* answered.
InFlight == Cardinality({i \in 1..Len(req) : req[i].status \in {"sent", "ignored"}})

\* The units that hold memory: the main context, the offscreen document and
\* the memory tabs.
UnitsHolding ==
    (IF memory # <<>> THEN 1 ELSE 0)
    + (IF doc.exists /\ doc.memory > 0 THEN 1 ELSE 0)
    + Cardinality({t \in TabIds : tabs[t].open /\ tabs[t].memory > 0})

\* C24: no more chunk generations are in flight at once than there are
\* units holding memory.
C24_InFlightBounded ==
    InFlight <= UnitsHolding


\* Some step of the challenge being handled can still run by itself: a
\* listener that has the request, a sendMessage callback, a continuation of
\* handleChallenge or an iteration of its loop.
HandlerCanStep ==
    \/ hcPc = "mainloop"
    \/ /\ hcPc = "awaiting"
       /\ \/ \E i \in 1..Len(req) : req[i].status \in {"sent", "responded", "rejected"}
          \/ \A i \in 1..Len(req) : req[i].status = "fulfilled"

C26_EmptyNodeIdStarts ==
    (answer.to = "startMiner" /\ ident.node_id = "") => answer.message # MissingNodeId

\* C27: when handleWelcome adopts a node_id that differs from the configured
\* one, the stored configuration carries that node_id afterwards.
C27_AssignedIdPersisted ==
    [][(HandleWelcome /\ ident'.minerNodeId # ident.minerNodeId)
          => ident'.stored = ident'.minerNodeId]_vars


\* C28: the chunk a unit's generateChunk returns for an offset is the chunk
\* PoRAMManager.generateChunk returns for the same seed, offset and size, so
\* the offscreen document, the memory tabs and the background agree.
C28_SameChunkInEveryUnit ==
    \A i \in 1..Len(req) :
        (req[i].reply.kind = "response" /\ req[i].reply.success) =>
            req[i].reply.chunk = generateChunk(challenge.epoch_seed, req[i].offset,
                                               challenge.chunk_size)

C28_Witness ==
    \E i \in 1..Len(req) :
        /\ req[i].type = "generate_chunk_tab"
        /\ req[i].reply.kind = "response"
        /\ req[i].reply.success
        /\ req[i].offset = 32
        /\ challenge.chunk_size > 32
        /\ Len(req[i].reply.chunk) > 0


\* The allocation initialize() has called.
StrategyMain == mainPc # "idle"

StrategyOffscreen == plan.pc = "off_loop"

StrategyTabs == plan.pc = "tab_loop"

BigEndian8(v) ==
    [k \in 1..8 |->
        LET base == 8 * (8 - k)
        IN  Bit(v, base + 1) + 2 * Bit(v, base + 2) + 4 * Bit(v, base + 3)
            + 8 * Bit(v, base + 4) + 16 * Bit(v, base + 5) + 32 * Bit(v, base + 6)
            + 64 * Bit(v, base + 7) + 128 * Bit(v, base + 8)]

\* The cursor of iteration j (1 first): the offset plus the 32 bytes of each
\* iteration before it.
CursorOf(v, j) == AddSmall(v, 32 * (j - 1))

\* C30: the bytes hashed in every iteration are the 8-byte big-endian
\* encoding of the cursor, for every unsigned 64-bit offset whose cursor
\* stays below 2^64.
C30_CursorEncodedExactly ==
    \A j \in 1..Len(enc.encoded) :
        Len(CursorOf(enc.value, j)) <= U64_BITS =>
            enc.encoded[j] = BigEndian8(CursorOf(enc.value, j))

\* The same for the offsets and cursors a Number holds exactly.
CursorExactBelow2To53 ==
    \A j \in 1..Len(enc.encoded) :
        Len(CursorOf(enc.value, j)) <= MANTISSA_BITS =>
            enc.encoded[j] = BigEndian8(CursorOf(enc.value, j))


\* C31: within one allocation the pause after a chunk is never shorter than
\* the pause after an earlier chunk.
C31_PausesNeverShorten ==
    \A j \in 1..Len(pauses) : \A k \in j..Len(pauses) : pauses[j] <= pauses[k]


(***************************************************************************)
(* Connections of the miners.                                              *)
\* Miner k holds a connection to the coordinator that is open or being
\* opened.
HoldsConnection(k) ==
    \E s \in SocketIds(k) : miners[k].socks[s] \in {"connecting", "open"}

\* C32: at most one WebSocketMiner holds an open or pending connection to the
\* coordinator, whatever the order of the start and stop requests.
C32_OneMinerConnected ==
    Cardinality({k \in MinerIds : HoldsConnection(k)}) <= 1


\* C33: once stop() has been called on a miner, that miner creates no further
\* socket.
C33_NoConnectAfterStop ==
    \A k \in MinerIds :
       miners[k].stoppedAt >= 0 => Len(miners[k].socks) = miners[k].stoppedAt


\* The registration retries miner k has pending.
PendingRetries(k) == miners[k].retries + miners[k].retriesAlways

\* C35: a miner has at most one registration retry pending at any time.
C35_OneRetryPending == \A k \in MinerIds : PendingRetries(k) <= 1


\* C36: whenever a miner sends a heartbeat it is connected and registered,
\* this.ws is open, and a registration confirmation has arrived since the
\* latest disconnect.
C36_HeartbeatOnlyWhenRegistered ==
    \A k \in MinerIds :
       miners[k].heartbeat.sent =>
          /\ miners[k].heartbeat.connected
          /\ miners[k].heartbeat.registered
          /\ miners[k].heartbeat.open
          /\ miners[k].heartbeat.confirmed

\* A heartbeat was sent through the second socket of a miner: after a
\* disconnect, a reconnect and a new confirmation.
C36_Witness ==
    \E k \in MinerIds : miners[k].heartbeat.sent /\ miners[k].heartbeat.ws = 2


\* C37: a miner never has more than one heartbeat interval timer running.
C37_OneHeartbeatTimer == \A k \in MinerIds : miners[k].hbTimers <= 1

\* A miner whose heartbeat was started a second time, on its second socket,
\* has one interval timer running.
C37_Witness ==
    \E k \in MinerIds :
       /\ miners[k].hbTimers = 1
       /\ miners[k].heartbeat.ws = 2
       /\ miners[k].registered


\* C38: a miner's registered flag is true only while its connected flag is.
C38_RegisteredOnlyWhileConnected ==
    \A k \in MinerIds : miners[k].registered => miners[k].connected


(***************************************************************************)
(* Planning: the tab an initialization request reaches.                    *)
\* C34: every call of initialize() running in a memory tab serves a request
\* that names that tab, so a request for tab T allocates in T alone and the
\* memory_tab_initialized message for T comes from T.
C34_InitializeOnlyNamedTab ==
    \A t \in TabIds : \A k \in 1..Len(tabs[t].runs) : tabs[t].runs[k].tabId = t


(***************************************************************************)
(* Planning: every call responds.                                          *)
\* A planning handler is between its first step and its response.
PlanRunning == plan.pc \in {"off_loop", "off_wait", "tab_loop", "tab_wait"}

\* The handler has a step of its own to take: in its loop the next request
\* or the response, in a wait the message waited for or the wait's timer.
PlanCanStep ==
    /\ plan.pc = "off_loop" => ENABLED (OffscreenPlanStep \/ OffscreenPlanRespond)
    /\ plan.pc = "off_wait" => ENABLED (\/ OffscreenPlanInitOk
                                        \/ OffscreenPlanInitError
                                        \/ OffscreenPlanInitTimeout)
    /\ plan.pc = "tab_loop" => ENABLED (\/ TabPlanCreate
                                        \/ TabPlanCreateFails
                                        \/ TabPlanRespond)
    /\ plan.pc = "tab_wait" => ENABLED TabPlanInitTimeout

\* What a running handler has left to do at most: twice the rounds of its
\* loop that can still come, and one more step when it is in the loop.
PlanSteps(p) ==
    CASE p.pc = "off_loop" -> 2 * p.remainingQ + 1
      [] p.pc = "off_wait" -> 2 * p.remainingQ
      [] p.pc = "tab_loop" -> 2 * (p.numNeeded - p.index) + 1
      [] p.pc = "tab_wait" -> 2 * (p.numNeeded - p.index)
      [] OTHER -> 0

\* C39: a planning handler that has not responded always has a step of its
\* own to take, whatever the units do or fail to do; each step of the handler
\* leaves it fewer steps to take; and a handler that has responded takes no
\* further step.  So every call responds, exactly once.
C39_PlanResponds ==
    /\ [](PlanRunning => PlanCanStep)
    /\ [][plan' # plan =>
            /\ plan.pc \notin {"done", "failed"}
            /\ plan.pc # "idle" => PlanSteps(plan') < PlanSteps(plan)
            /\ plan.pc # "idle" => PlanSteps(plan') >= 0]_vars

\* The handler of a 44 GB commitment has responded with a failure because
\* its second tab never reported within the five minutes of the wait.
C39_Witness ==
    /\ plan.pc = "failed"
    /\ plan.failure = "init_timeout"
    /\ plan.failedUnit = 2
    /\ committedGB > 30


(***************************************************************************)
(* Routing of a challenge's offsets.                                       *)
\* C40: the unit index computed for an offset is at least 0 and less than
\* the number of units.
C40_UnitIndexInRange ==
    route.index > 0 => (0 <= route.unit /\ route.unit < route.k)

\* The last of several offsets has been routed to the last of several units.
C40_Witness ==
    /\ route.k > 1
    /\ route.n > route.k
    /\ route.index = route.n
    /\ route.unit = route.k - 1

====
